---- MODULE Spec2Model ----
(***************************************************************************)
(* Danger-aware planning and multi-unit decision engine of JingleBang.     *)
(*                                                                         *)
(* Positions are pairs <<x, y>>.  Timers are seconds in the source         *)
(* (floats); here every time value is an integer number of tenths of a     *)
(* second, so 2.5 s is 25 and safe_margin 0.2 s is 2.                      *)
(***************************************************************************)
EXTENDS Integers, Naturals, Sequences, FiniteSets, TLC

VARIABLES
    walls,          \* state.arena.walls      (set of cells)
    obstacles,      \* state.arena.obstacles  (set of cells)
    bombs,          \* state.arena.bombs      (sequence of [pos, range, timer])
    map_size,       \* state.map_size         (<<width, height>>)
    bombers,        \* state.bombers          (sequence of Bomber records)
    mobs,           \* state.mobs             (sequence of [pos, safe_time])
    assign,         \* AssignmentStore: unit id -> strategy id
    instances,      \* DecisionEngine._instances: unit id -> strategy private state
    pc,             \* position of the decision pass
    k,              \* index of the next unit in the sorted unit list
    occupied_now,   \* decide: occupied_now
    reserved_next,  \* decide: reserved_next
    reserved_blast, \* decide: reserved_blast
    cmds,           \* decide: cmds
    call,           \* last application of a pure function: arguments and result
    runner_pc,      \* BotRunner.run: position of the loop ("off" outside a runner)
    cache,          \* StateCache: _state and _last_error
    booster,        \* BotRunner._booster is not None
    sent,           \* ticks in which send_move was called
    tick,           \* number of loop iterations finished
    control,        \* RunnerControl: running and paused
    lock,           \* StateCache._lock: the thread holding it, or "free"
    readers,        \* threads of the status surface: position and value read
    created,        \* the keys registry.create was called for; the index is the object
    called,         \* which object decide_for_unit was called on, for which key, in which pass
    passes          \* number of calls of decide so far

vars == <<walls, obstacles, bombs, map_size, bombers, mobs, assign, instances, pc, k,
          occupied_now, reserved_next, reserved_blast, cmds, call,
          runner_pc, cache, booster, sent, tick, control, lock, readers,
          created, called, passes>>

-----------------------------------------------------------------------------
(* Bounds of the model *)

W == 3
H == 3
MaxStatic == 1
MaxBombs == 2
MaxRange == 2

\* SafeBombConfig.safe_margin = 0.2 s and EngineConfig.danger_timer = 2.5 s
SafeMargin == 2
DangerTimer == 25

\* SafeBombConfig: my_bomb_range = 1, my_bomb_timer = 8.0 s, mob_avoid_dist = 1
MyBombRange == 1
MyBombTimer == 80
MobAvoidDist == 1

Cells == (0 .. W - 1) \X (0 .. H - 1)

-----------------------------------------------------------------------------
(* Geometry *)

Abs(n) == IF n < 0 THEN -n ELSE n

Dirs == << <<1, 0>>, <<-1, 0>>, <<0, 1>>, <<0, -1>> >>

neighbors4(p) == [i \in 1 .. 4 |-> <<p[1] + Dirs[i][1], p[2] + Dirs[i][2]>>]

inside(p, w, h) == 0 <= p[1] /\ p[1] < w /\ 0 <= p[2] /\ p[2] < h

manhattan(a, b) == Abs(a[1] - b[1]) + Abs(a[2] - b[2])

Range(s) == {s[i] : i \in DOMAIN s}

Min(S) == CHOOSE m \in S : \A n \in S : m <= n

-----------------------------------------------------------------------------
(* Blast / danger model *)

\* the ray of blast_cross in direction d, from step i on
RECURSIVE blast_ray(_, _, _, _, _, _, _)
blast_ray(pos, d, i, bomb_range, ws, obs, bs) ==
    IF i > bomb_range THEN {}
    ELSE LET p == <<pos[1] + d[1] * i, pos[2] + d[2] * i>>
         IN  {p} \cup (IF p \in ws \/ p \in obs \/ p \in bs
                       THEN {}
                       ELSE blast_ray(pos, d, i + 1, bomb_range, ws, obs, bs))

\* a ray that leaves the blocking cell out
RECURSIVE blast_ray_open(_, _, _, _, _, _, _)
blast_ray_open(pos, d, i, bomb_range, ws, obs, bs) ==
    IF i > bomb_range THEN {}
    ELSE LET p == <<pos[1] + d[1] * i, pos[2] + d[2] * i>>
         IN  IF p \in ws \/ p \in obs \/ p \in bs
             THEN {}
             ELSE {p} \cup blast_ray_open(pos, d, i + 1, bomb_range, ws, obs, bs)

blast_cross_open(pos, bomb_range, ws, obs, bs) ==
    {pos} \cup UNION {blast_ray_open(pos, Dirs[i], 1, bomb_range, ws, obs, bs) : i \in 1 .. 4}

blast_cross(pos, bomb_range, ws, obs, bs) ==
    {pos} \cup UNION {blast_ray(pos, Dirs[i], 1, bomb_range, ws, obs, bs) : i \in 1 .. 4}

\* a walk of can_hit_target_in_cross that tests the stopper before the target
RECURSIVE hit_walk_stopper_first(_, _, _, _, _, _, _)
hit_walk_stopper_first(p, step, left, target_pos, ws, obs, bs) ==
    IF left = 0 THEN FALSE
    ELSE LET q == <<p[1] + step[1], p[2] + step[2]>>
         IN  IF q \in ws \/ q \in obs \/ q \in bs THEN FALSE
             ELSE IF q = target_pos THEN TRUE
             ELSE hit_walk_stopper_first(q, step, left - 1, target_pos, ws, obs, bs)

\* the loop of can_hit_target_in_cross: `left` more steps from p along step
RECURSIVE hit_walk(_, _, _, _, _, _, _)
hit_walk(p, step, left, target_pos, ws, obs, bs) ==
    IF left = 0 THEN FALSE
    ELSE LET q == <<p[1] + step[1], p[2] + step[2]>>
         IN  IF q = target_pos THEN TRUE
             ELSE IF q \in ws \/ q \in obs \/ q \in bs THEN FALSE
             ELSE hit_walk(q, step, left - 1, target_pos, ws, obs, bs)

can_hit_target_in_cross(bomb_pos, target_pos, bomb_range, ws, obs, bs) ==
    IF bomb_pos[1] = target_pos[1]
    THEN LET dist == Abs(target_pos[2] - bomb_pos[2])
         IN  IF dist = 0 \/ dist > bomb_range THEN FALSE
             ELSE hit_walk(bomb_pos, <<0, IF target_pos[2] > bomb_pos[2] THEN 1 ELSE -1>>,
                           dist, target_pos, ws, obs, bs)
    ELSE IF bomb_pos[2] = target_pos[2]
    THEN LET dist == Abs(target_pos[1] - bomb_pos[1])
         IN  IF dist = 0 \/ dist > bomb_range THEN FALSE
             ELSE hit_walk(bomb_pos, <<IF target_pos[1] > bomb_pos[1] THEN 1 ELSE -1, 0>>,
                           dist, target_pos, ws, obs, bs)
    ELSE FALSE

\* ctx.bombs: the dict {b.pos: (b.range, b.timer) for b in state.arena.bombs},
\* kept as the sequence of its items in insertion order (a later bomb on the
\* same cell overwrites the value and keeps the place of the first)
RECURSIVE bombs_dict(_)
bombs_dict(bs) ==
    IF bs = << >> THEN << >>
    ELSE LET n == Len(bs)
             last == bs[n]
             rest == bombs_dict(SubSeq(bs, 1, n - 1))
         IN  IF \E i \in DOMAIN rest : rest[i].pos = last.pos
             THEN [i \in DOMAIN rest |->
                      IF rest[i].pos = last.pos THEN last ELSE rest[i]]
             ELSE Append(rest, last)

bomb_keys(d) == {d[i].pos : i \in DOMAIN d}

\* the loop of build_danger over the first n items, stoppers fixed
RECURSIVE build_danger_loop(_, _, _, _, _, _)
build_danger_loop(d, n, stoppers, timer_threshold, ws, obs) ==
    IF n = 0 THEN {}
    ELSE build_danger_loop(d, n - 1, stoppers, timer_threshold, ws, obs)
         \cup (IF d[n].timer <= timer_threshold
               THEN blast_cross(d[n].pos, d[n].range, ws, obs, stoppers)
               ELSE {})

\* build_danger that forgets to use unarmed bombs as stoppers
build_danger_armed_stoppers(d, timer_threshold, ws, obs) ==
    build_danger_loop(d, Len(d),
                      {d[i].pos : i \in {j \in DOMAIN d : d[j].timer <= timer_threshold}},
                      timer_threshold, ws, obs)

build_danger(d, timer_threshold, ws, obs) ==
    build_danger_loop(d, Len(d), bomb_keys(d), timer_threshold, ws, obs)

\* blast footprint of a bomb clipped to the map: the origin, and along each of
\* the four rays every cell up to and including the first wall, obstacle or
\* stopper, never a cell outside [0,w) x [0,h)
danger_from_bomb(pos, bomb_range, ws, obs, bombs_as_stoppers, w, h) ==
    {p \in blast_cross(pos, bomb_range, ws, obs, bombs_as_stoppers) :
        p = pos \/ inside(p, w, h)}

MapGet(m, key, default) == IF key \in DOMAIN m THEN m[key] ELSE default

\* _min_explosion_map whose inner loop overwrites instead of taking the minimum
RECURSIVE min_explosion_map_overwrite(_, _, _, _, _, _)
min_explosion_map_overwrite(d, n, ws, obs, w, h) ==
    IF n = 0 THEN << >>
    ELSE LET out == min_explosion_map_overwrite(d, n - 1, ws, obs, w, h)
             blast == danger_from_bomb(d[n].pos, d[n].range, ws, obs, bomb_keys(d), w, h)
         IN  [cell \in (DOMAIN out) \cup blast |->
                 IF cell \in blast THEN d[n].timer ELSE out[cell]]

\* SafeBombStrategy._min_explosion_map after the first n items of ctx.bombs
RECURSIVE min_explosion_map(_, _, _, _, _, _)
min_explosion_map(d, n, ws, obs, w, h) ==
    IF n = 0 THEN << >>
    ELSE LET out == min_explosion_map(d, n - 1, ws, obs, w, h)
             blast == danger_from_bomb(d[n].pos, d[n].range, ws, obs, bomb_keys(d), w, h)
         IN  [cell \in (DOMAIN out) \cup blast |->
                 IF cell \in blast
                 THEN (IF cell \in DOMAIN out /\ out[cell] <= d[n].timer
                       THEN out[cell] ELSE d[n].timer)
                 ELSE out[cell]]

safe_to_stay(pos, leave_time, min_explosion) ==
    IF pos \notin DOMAIN min_explosion THEN TRUE
    ELSE min_explosion[pos] > leave_time + SafeMargin

-----------------------------------------------------------------------------
(* Time-aware search *)

None == [ok |-> FALSE]
Some(v) == [ok |-> TRUE, val |-> v]

\* seconds to tenths: float(t + 1) of the search is Tenths(t + 1)
Tenths(t) == t * 10

\* the goal predicates the callers pass to _time_bfs_first, as data:
\*   "escape": lambda of _try_bomb_obstacles, (p not in blast) and safe to stay
\*             until leave_time;  "escape_mob": the same and 2 away from the mob;
\*   "cell":   reach the cell g.target at time g.min_t or later
goal_pred(g, p, t, min_explosion) ==
    CASE g.kind = "escape" ->
            p \notin g.blast /\ safe_to_stay(p, g.leave_time, min_explosion)
      [] g.kind = "escape_mob" ->
            /\ p \notin g.blast
            /\ manhattan(p, g.mob) >= 2
            /\ safe_to_stay(p, g.leave_time, min_explosion)
      [] g.kind = "cell" -> p = g.target /\ t >= g.min_t

\* ok() of the search checked for the arrival time only
bfs_ok_on_arrival(p, t, min_explosion) == safe_to_stay(p, Tenths(t), min_explosion)

\* ok() of _time_bfs_first
bfs_ok(p, t, min_explosion) == safe_to_stay(p, Tenths(t + 1), min_explosion)

\* the goal test without "t > start_time"
bfs_accept_at_start(a, cur, t) == goal_pred(a.goal, cur, t, a.min_explosion)

\* the goal test of _time_bfs_first on a popped state
bfs_accept(a, cur, t) == t > a.start_time /\ goal_pred(a.goal, cur, t, a.min_explosion)

RECURSIVE reconstruct(_, _, _, _)
reconstruct(prev, cur, start, start_time) ==
    IF cur = <<start, start_time>> THEN << >>
    ELSE Append(reconstruct(prev, prev[cur], start, start_time), cur[1])

\* a neighbour loop that does not look into `seen`
RECURSIVE bfs_expand_unseen(_, _, _, _, _)
bfs_expand_unseen(a, cur, t, i, st) ==
    IF i > 4 THEN st
    ELSE LET nx == neighbors4(cur)[i]
             nt == t + 1
             skip == \/ nt > a.start_time + a.max_time
                     \/ ~inside(nx, a.w, a.h)
                     \/ nx \in a.blocked
                     \/ ~bfs_ok(nx, nt, a.min_explosion)
         IN  bfs_expand_unseen(a, cur, t, i + 1,
                 IF skip THEN st
                 ELSE [q |-> Append(st.q, <<nx, nt>>),
                       seen |-> st.seen \cup {<<nx, nt>>},
                       prev |-> (<<nx, nt>> :> <<cur, t>>) @@ st.prev])

\* the for-loop over neighbors4(cur), from the i-th neighbour on;
\* st = [q, seen, prev]
RECURSIVE bfs_expand(_, _, _, _, _)
bfs_expand(a, cur, t, i, st) ==
    IF i > 4 THEN st
    ELSE LET nx == neighbors4(cur)[i]
             nt == t + 1
             skip == \/ nt > a.start_time + a.max_time
                     \/ ~inside(nx, a.w, a.h)
                     \/ nx \in a.blocked
                     \/ ~bfs_ok(nx, nt, a.min_explosion)
                     \/ <<nx, nt>> \in st.seen
         IN  bfs_expand(a, cur, t, i + 1,
                 IF skip THEN st
                 ELSE [q |-> Append(st.q, <<nx, nt>>),
                       seen |-> st.seen \cup {<<nx, nt>>},
                       prev |-> (<<nx, nt>> :> <<cur, t>>) @@ st.prev])

\* the while-loop of _time_bfs_first
RECURSIVE bfs_loop(_, _)
bfs_loop(a, st) ==
    IF st.q = << >> THEN None
    ELSE LET cur == Head(st.q)[1]
             t == Head(st.q)[2]
             popped == [st EXCEPT !.q = Tail(st.q)]
         IN  IF t > a.start_time + a.max_time THEN bfs_loop(a, popped)
             ELSE IF bfs_accept(a, cur, t)
                  THEN Some(reconstruct(st.prev, <<cur, t>>, a.start, a.start_time))
                  ELSE bfs_loop(a, bfs_expand(a, cur, t, 1, popped))

\* a = [start, start_time, blocked, min_explosion, w, h, max_time, goal]
time_bfs_first(a) ==
    bfs_loop(a, [q |-> << <<a.start, a.start_time>> >>,
                 seen |-> {<<a.start, a.start_time>>},
                 prev |-> << >>])

-----------------------------------------------------------------------------
(* SafeBombStrategy *)

NoPos == << >>

\* explode_at = 1.0 + my_bomb_timer of a bomb laid on arrival
ExplodeAt == 10 + MyBombTimer

\* max_time = int(my_bomb_timer) + 6 of the escape searches
EscapeHorizon == (MyBombTimer \div 10) + 6

\* min_explosion_new of the bomb planners: the blast cells explode at
\* explode_at unless an existing bomb hits them earlier
with_new_bomb(min_explosion, blast, explode_at) ==
    [p \in (DOMAIN min_explosion) \cup blast |->
        IF p \in blast
        THEN (IF p \in DOMAIN min_explosion /\ min_explosion[p] <= explode_at
              THEN min_explosion[p] ELSE explode_at)
        ELSE min_explosion[p]]

\* the elements of a list that satisfy a test, in order
RECURSIVE FilterCells(_, _)
FilterCells(cells, keep) ==
    IF cells = << >> THEN << >>
    ELSE (IF Head(cells) \in keep THEN <<Head(cells)>> ELSE << >>)
         \o FilterCells(Tail(cells), keep)

\* sorted(set of cells): by x, then by y
CellLess(a, b) == a[1] < b[1] \/ (a[1] = b[1] /\ a[2] < b[2])

RECURSIVE sorted_cells(_)
sorted_cells(S) ==
    IF S = {} THEN << >>
    ELSE LET m == CHOOSE c \in S : \A d \in S \ {c} : CellLess(c, d)
         IN  <<m>> \o sorted_cells(S \ {m})

\* int(md5(unit_id).hexdigest(), 16) % n for the unit ids "1", "2", "3" and
\* n = 1..25
Md5Mod ==
    << <<0, 1, 1, 3, 1, 1, 2, 3, 4, 1, 2, 7, 0, 9, 1, 11, 7, 13, 3, 11, 16, 13, 18, 19, 11>>,
       <<0, 0, 0, 0, 2, 0, 2, 4, 3, 2, 6, 0, 4, 2, 12, 12, 15, 12, 12, 12, 9, 6, 5, 12, 12>>,
       <<0, 1, 1, 3, 3, 1, 5, 3, 1, 3, 10, 7, 5, 5, 13, 3, 12, 1, 15, 3, 19, 21, 16, 19, 8>> >>

mob_kill_zone(ms, w, h, dist) ==
    IF dist <= 0 \/ ms = << >> THEN {}
    ELSE UNION {{ms[i].pos} \cup
                (IF dist >= 1
                 THEN {nb \in Range(neighbors4(ms[i].pos)) : inside(nb, w, h)}
                 ELSE {}) : i \in DOMAIN ms}

\* _is_step_valid asking for one more second of safety
is_step_valid_late(cur, step, blocked, min_explosion, w, h) ==
    /\ inside(step, w, h)
    /\ step \notin blocked
    /\ manhattan(cur, step) = 1
    /\ safe_to_stay(step, 30, min_explosion)

\* _is_step_valid
is_step_valid(cur, step, blocked, min_explosion, w, h) ==
    /\ inside(step, w, h)
    /\ step \notin blocked
    /\ manhattan(cur, step) = 1
    /\ safe_to_stay(step, 20, min_explosion)

\* min((manhattan(p, q) for q in others), default=default)
MinDist(p, others, default) ==
    IF others = {} THEN default ELSE Min({manhattan(p, q) : q \in others})

\* neighbours of cur a unit may step on: on the map, not blocked and safe to
\* stay on for leave_time 2.0, in the order of neighbors4
open_neighbours(cur, blocked, min_explosion, w, h) ==
    FilterCells(neighbors4(cur),
                {nb \in Range(neighbors4(cur)) :
                    /\ inside(nb, w, h)
                    /\ nb \notin blocked
                    /\ safe_to_stay(nb, 20, min_explosion)})

\* the first element of a non-empty list with the greatest score
FirstBest(cells, score(_)) ==
    cells[Min({i \in DOMAIN cells : \A j \in DOMAIN cells : score(cells[j]) <= score(cells[i])})]

panic_step(unit, blocked, min_explosion, ms, w, h, prev_pos) ==
    LET cand == open_neighbours(unit.pos, blocked, min_explosion, w, h)
        sc(nb) == MinDist(nb, {ms[i].pos : i \in DOMAIN ms}, 10) * 10
                  - (IF prev_pos # NoPos /\ nb = prev_pos THEN 1000 ELSE 0)
    IN  IF cand = << >> THEN None ELSE Some(FirstBest(cand, sc))

\* a step that is never corrected
anti_pingpong_off(cur, step, blocked, min_explosion, w, h, prev_pos) == step

anti_pingpong(cur, step, blocked, min_explosion, w, h, prev_pos) ==
    IF prev_pos = NoPos \/ step # prev_pos THEN step
    ELSE LET open == open_neighbours(cur, blocked, min_explosion, w, h)
             alts == FilterCells(open, Range(open) \ {prev_pos})
         IN  IF alts = << >> THEN step ELSE alts[1]

explore_step(unit, allies, blocked, min_explosion, w, h, prev_pos) ==
    LET cand == open_neighbours(unit.pos, blocked, min_explosion, w, h)
        score(p) == MinDist(p, {allies[i].pos : i \in DOMAIN allies}, 5) * 10
                    - (IF prev_pos # NoPos /\ p = prev_pos THEN 1000 ELSE 0)
    IN  IF cand = << >> THEN None
        ELSE Some(anti_pingpong(unit.pos, FirstBest(cand, score), blocked,
                                min_explosion, w, h, prev_pos))

bomb_positions_for_obstacles(obs, blocked, w, h) ==
    UNION {{nb \in Range(neighbors4(ob)) : inside(nb, w, h) /\ nb \notin blocked} : ob \in obs}

pick_goal_spread(goals, unit_id) ==
    sorted_cells(goals)[Md5Mod[unit_id][Cardinality(goals)] + 1]

\* the path of prev links from start to cur, start left out
RECURSIVE path_to(_, _, _)
path_to(prev, cur, start) ==
    IF cur = start THEN << >> ELSE Append(path_to(prev, prev[cur], start), cur)

\* the for-loop of _bfs over neighbors4(cur), from the i-th on; st = [q, seen, prev]
RECURSIVE plain_expand(_, _, _, _, _, _)
plain_expand(cur, i, st, blocked, w, h) ==
    IF i > 4 THEN st
    ELSE LET nb == neighbors4(cur)[i]
             skip == ~inside(nb, w, h) \/ nb \in blocked \/ nb \in st.seen
         IN  plain_expand(cur, i + 1,
                 IF skip THEN st
                 ELSE [q |-> Append(st.q, nb),
                       seen |-> st.seen \cup {nb},
                       prev |-> (nb :> cur) @@ st.prev],
                 blocked, w, h)

RECURSIVE plain_loop(_, _, _, _, _, _)
plain_loop(st, start, goals, blocked, w, h) ==
    IF st.q = << >> THEN None
    ELSE LET cur == Head(st.q)
         IN  IF cur \in goals /\ cur # start
             THEN Some(path_to(st.prev, cur, start))
             ELSE plain_loop(plain_expand(cur, 1, [st EXCEPT !.q = Tail(st.q)],
                                          blocked, w, h),
                             start, goals, blocked, w, h)

\* SafeBombStrategy._bfs
bfs(start, goals, blocked, w, h) ==
    IF goals = {} THEN None
    ELSE plain_loop([q |-> <<start>>, seen |-> {start}, prev |-> << >>],
                    start, goals, blocked, w, h)

UnitPlan(path, bs, debug) == [path |-> path, bombs |-> bs, debug |-> debug]

\* a candidate loop that keeps a bomb cell although no escape was found
obstacle_candidate_no_escape(bomb_cell, ctx, blocked_static, ally_cells, kill_zone, min_explosion) ==
    LET blast == danger_from_bomb(bomb_cell, MyBombRange, ctx.walls, ctx.obstacles,
                                  bomb_keys(ctx.bombs) \cup {bomb_cell}, ctx.w, ctx.h)
        destroyed == Cardinality(blast \cap ctx.obstacles)
    IN  IF \/ ~inside(bomb_cell, ctx.w, ctx.h)
           \/ bomb_cell \in blocked_static
           \/ bomb_cell \in kill_zone
           \/ destroyed <= 0
           \/ blast \cap ally_cells # {}
        THEN [ok |-> FALSE]
        ELSE [ok |-> TRUE, destroyed |-> destroyed, bomb_cell |-> bomb_cell,
              escape |-> << >>]

\* what one candidate bomb cell of _try_bomb_obstacles yields:
\* [ok, destroyed, bomb_cell, escape]
obstacle_candidate(bomb_cell, ctx, blocked_static, ally_cells, kill_zone, min_explosion) ==
    LET blast == danger_from_bomb(bomb_cell, MyBombRange, ctx.walls, ctx.obstacles,
                                  bomb_keys(ctx.bombs) \cup {bomb_cell}, ctx.w, ctx.h)
        destroyed == Cardinality(blast \cap ctx.obstacles)
        new_map == with_new_bomb(min_explosion, blast, ExplodeAt)
        escape == time_bfs_first(
                      [start |-> bomb_cell, start_time |-> 1,
                       blocked |-> blocked_static \cup {bomb_cell} \cup kill_zone
                                   \cup ally_cells,
                       min_explosion |-> new_map, w |-> ctx.w, h |-> ctx.h,
                       max_time |-> EscapeHorizon,
                       goal |-> [kind |-> "escape", blast |-> blast,
                                 leave_time |-> ExplodeAt + 5]])
    IN  IF \/ ~inside(bomb_cell, ctx.w, ctx.h)
           \/ bomb_cell \in blocked_static
           \/ bomb_cell \in kill_zone
           \/ destroyed <= 0
           \/ blast \cap ally_cells # {}
        THEN [ok |-> FALSE]
        ELSE IF ~escape.ok \/ escape.val = << >>
             THEN [ok |-> FALSE]
             ELSE [ok |-> TRUE, destroyed |-> destroyed, bomb_cell |-> bomb_cell,
                   escape |-> escape.val]

\* _try_bomb_obstacles: None, or the plan and the escape it commits
try_bomb_obstacles(unit, ctx, blocked_static, ally_cells, kill_zone, min_explosion) ==
    LET cand == [i \in 1 .. 4 |->
                    obstacle_candidate(neighbors4(unit.pos)[i], ctx, blocked_static,
                                       ally_cells, kill_zone, min_explosion)]
        good == {i \in 1 .. 4 : cand[i].ok}
    IN  IF good = {} THEN None
        ELSE LET best == Min({i \in good :
                                 \A j \in good : cand[j].destroyed <= cand[i].destroyed})
             IN  Some([plan |-> UnitPlan(<<cand[best].bomb_cell>>, <<cand[best].bomb_cell>>,
                                        "bomb obstacles"),
                       escape |-> cand[best].escape])

\* sorted(mobs, key=distance to the unit): stable
RECURSIVE sort_mobs(_, _)
sort_mobs(ms, pos) ==
    IF ms = << >> THEN << >>
    ELSE LET i == Min({a \in DOMAIN ms :
                          \A b \in DOMAIN ms :
                              manhattan(pos, ms[a].pos) <= manhattan(pos, ms[b].pos)})
         IN  <<ms[i]>> \o sort_mobs(SubSeq(ms, 1, i - 1) \o SubSeq(ms, i + 1, Len(ms)), pos)

\* what one (mob, bomb cell) pair of _try_bomb_mobs yields: [ok, bomb_cell, escape]
mob_candidate(mob, bomb_cell, unit, ctx, blocked_static, ally_cells, min_explosion) ==
    LET blast == danger_from_bomb(bomb_cell, MyBombRange, ctx.walls, ctx.obstacles,
                                  bomb_keys(ctx.bombs) \cup {bomb_cell}, ctx.w, ctx.h)
        new_map == with_new_bomb(min_explosion, blast, ExplodeAt)
        escape == time_bfs_first(
                      [start |-> bomb_cell, start_time |-> 1,
                       blocked |-> blocked_static \cup {bomb_cell} \cup ally_cells,
                       min_explosion |-> new_map, w |-> ctx.w, h |-> ctx.h,
                       max_time |-> EscapeHorizon,
                       goal |-> [kind |-> "escape_mob", blast |-> blast, mob |-> mob.pos,
                                 leave_time |-> ExplodeAt + 5]])
    IN  IF \/ ~inside(bomb_cell, ctx.w, ctx.h)
           \/ bomb_cell \in blocked_static
           \/ bomb_cell \in ally_cells
           \/ manhattan(unit.pos, bomb_cell) # 1
           \/ mob.pos \notin blast
           \/ blast \cap ally_cells # {}
        THEN [ok |-> FALSE]
        ELSE IF ~escape.ok \/ escape.val = << >>
             THEN [ok |-> FALSE]
             ELSE [ok |-> TRUE, bomb_cell |-> bomb_cell, escape |-> escape.val]

\* _try_bomb_mobs: the first (mob, neighbour) pair, over the three nearest
\* mobs, that has an escape
try_bomb_mobs(unit, ctx, blocked_static, ally_cells, min_explosion, ms) ==
    IF ms = << >> THEN None
    ELSE LET near == SubSeq(sort_mobs(ms, unit.pos), 1, IF Len(ms) < 3 THEN Len(ms) ELSE 3)
             cand == [n \in 1 .. 4 * Len(near) |->
                         LET mob == near[((n - 1) \div 4) + 1]
                         IN  mob_candidate(mob, neighbors4(mob.pos)[((n - 1) % 4) + 1],
                                           unit, ctx, blocked_static, ally_cells,
                                           min_explosion)]
             good == {n \in DOMAIN cand : cand[n].ok}
         IN  IF good = {} THEN None
             ELSE Some([plan |-> UnitPlan(<<cand[Min(good)].bomb_cell>>,
                                          <<cand[Min(good)].bomb_cell>>, "bomb mob"),
                        escape |-> cand[Min(good)].escape])

\* the private state of a fresh SafeBombStrategy: _prev_pos, _escape_plan
NewSafeBomb == [prev_pos |-> NoPos, escape_plan |-> << >>]

\* the other bombers with the test of life inverted
RECURSIVE allies_of_dead(_, _)
allies_of_dead(bs, unit_id) ==
    IF bs = << >> THEN << >>
    ELSE (IF ~Head(bs).alive /\ Head(bs).id # unit_id THEN <<Head(bs)>> ELSE << >>)
         \o allies_of_dead(Tail(bs), unit_id)

\* the living bombers other than the unit, in snapshot order
RECURSIVE allies_of(_, _)
allies_of(bs, unit_id) ==
    IF bs = << >> THEN << >>
    ELSE (IF Head(bs).alive /\ Head(bs).id # unit_id THEN <<Head(bs)>> ELSE << >>)
         \o allies_of(Tail(bs), unit_id)

\* steps D and E of decide_for_unit: walk to a bomb position, else explore
safe_walk(unit, ctx, allies, blocked_move, min_explosion, inst) ==
    LET goals == bomb_positions_for_obstacles(ctx.obstacles, blocked_move, ctx.w, ctx.h)
        path == IF goals = {} THEN None
                ELSE bfs(unit.pos, {pick_goal_spread(goals, unit.id)}, blocked_move,
                         ctx.w, ctx.h)
        explore == explore_step(unit, allies, blocked_move, min_explosion, ctx.w, ctx.h,
                                inst.prev_pos)
    IN  IF path.ok /\ path.val # << >>
        THEN [plan |-> Some(UnitPlan(<<anti_pingpong(unit.pos, path.val[1], blocked_move,
                                                     min_explosion, ctx.w, ctx.h,
                                                     inst.prev_pos)>>,
                                     << >>, "go to obstacle bomb-pos")),
              inst |-> [inst EXCEPT !.prev_pos = unit.pos]]
        ELSE IF explore.ok
             THEN [plan |-> Some(UnitPlan(<<explore.val>>, << >>, "explore")),
                   inst |-> [inst EXCEPT !.prev_pos = unit.pos]]
             ELSE [plan |-> None, inst |-> inst]

\* steps C1 and C2 of decide_for_unit: the bomb plans, else the walk
\* env = [allies, blocked_static, ally_cells, kill_zone, blocked_move, min_explosion]
safe_attack(unit, ctx, env, inst) ==
    LET ob == IF unit.bombs_available > 0
              THEN try_bomb_obstacles(unit, ctx, env.blocked_static, env.ally_cells,
                                      env.kill_zone, env.min_explosion)
              ELSE None
        mb == IF unit.bombs_available > 0
              THEN try_bomb_mobs(unit, ctx, env.blocked_static, env.ally_cells,
                                 env.min_explosion, ctx.mobs)
              ELSE None
    IN  IF ob.ok
        THEN [plan |-> Some(ob.val.plan),
              inst |-> [prev_pos |-> unit.pos, escape_plan |-> ob.val.escape]]
        ELSE IF mb.ok
             THEN [plan |-> Some(mb.val.plan),
                   inst |-> [prev_pos |-> unit.pos, escape_plan |-> mb.val.escape]]
             ELSE safe_walk(unit, ctx, env.allies, env.blocked_move, env.min_explosion, inst)

\* the test of step B that looks at the mobs only
must_evade_mobs_only(unit, kill_zone, min_explosion) == unit.pos \in kill_zone

\* the test of step B of decide_for_unit: a mob is near or the cell is about
\* to explode
must_evade(unit, kill_zone, min_explosion) ==
    unit.pos \in kill_zone \/ ~safe_to_stay(unit.pos, 10, min_explosion)

\* a broken escape plan that is kept
clear_escape_kept(inst) == inst

\* self._escape_plan.clear()
clear_escape(inst) == [inst EXCEPT !.escape_plan = << >>]

\* SafeBombStrategy.decide_for_unit: the plan returned and the private state
\* left behind; ctx = [w, h, walls, obstacles, bombs, bombers, mobs]
safe_decide(unit, ctx, inst) ==
    LET blocked_static == ctx.walls \cup ctx.obstacles \cup bomb_keys(ctx.bombs)
        allies == allies_of(ctx.bombers, unit.id)
        ally_cells == {allies[i].pos : i \in DOMAIN allies}
        kill_zone == mob_kill_zone(ctx.mobs, ctx.w, ctx.h, MobAvoidDist)
        blocked_move == blocked_static \cup kill_zone \cup ally_cells
        min_explosion == min_explosion_map(ctx.bombs, Len(ctx.bombs), ctx.walls,
                                           ctx.obstacles, ctx.w, ctx.h)
        follow == /\ inst.escape_plan # << >>
                  /\ is_step_valid(unit.pos, Head(inst.escape_plan), blocked_move,
                                   min_explosion, ctx.w, ctx.h)
        cleared == clear_escape(inst)
        panic == panic_step(unit, blocked_move, min_explosion, ctx.mobs, ctx.w, ctx.h,
                            inst.prev_pos)
    IN  IF follow
        THEN [plan |-> Some(UnitPlan(<<Head(inst.escape_plan)>>, << >>,
                                     "follow escape plan")),
              inst |-> [prev_pos |-> unit.pos, escape_plan |-> Tail(inst.escape_plan)]]
        ELSE IF must_evade(unit, kill_zone, min_explosion)
             THEN (IF panic.ok
                   THEN [plan |-> Some(UnitPlan(<<panic.val>>, << >>, "panic evade")),
                         inst |-> [cleared EXCEPT !.prev_pos = unit.pos]]
                   ELSE [plan |-> None, inst |-> cleared])
             ELSE safe_attack(unit, ctx,
                              [allies |-> allies, blocked_static |-> blocked_static,
                               ally_cells |-> ally_cells, kill_zone |-> kill_zone,
                               blocked_move |-> blocked_move,
                               min_explosion |-> min_explosion],
                              cleared)

-----------------------------------------------------------------------------
(* services.nav: plain breadth-first search *)

\* a neighbour loop that walks through blocked cells
RECURSIVE nav_expand_through_blocked(_, _, _, _, _, _, _)
nav_expand_through_blocked(cur, i, st, goal, blocked, w, h) ==
    IF i > 4 \/ st.found THEN st
    ELSE LET nb == neighbors4(cur)[i]
             skip == ~inside(nb, w, h) \/ nb \in st.seen
         IN  nav_expand_through_blocked(cur, i + 1,
                 IF skip THEN st
                 ELSE [q |-> Append(st.q, nb),
                       seen |-> st.seen \cup {nb},
                       prev |-> (nb :> cur) @@ st.prev,
                       found |-> nb = goal],
                 goal, blocked, w, h)

\* bfs_path: the for-loop over neighbors4(cur), from the i-th on, left as soon
\* as the goal is discovered; st = [q, seen, prev, found]
RECURSIVE nav_expand(_, _, _, _, _, _, _)
nav_expand(cur, i, st, goal, blocked, w, h) ==
    IF i > 4 \/ st.found THEN st
    ELSE LET nb == neighbors4(cur)[i]
             skip == ~inside(nb, w, h) \/ nb \in st.seen \/ nb \in blocked
         IN  nav_expand(cur, i + 1,
                 IF skip THEN st
                 ELSE [q |-> Append(st.q, nb),
                       seen |-> st.seen \cup {nb},
                       prev |-> (nb :> cur) @@ st.prev,
                       found |-> nb = goal],
                 goal, blocked, w, h)

\* bfs_path: the while-loop over the queue
RECURSIVE nav_loop(_, _, _, _, _, _)
nav_loop(st, start, goal, blocked, w, h) ==
    IF st.found THEN Some(path_to(st.prev, goal, start))
    ELSE IF st.q = << >> THEN None
         ELSE nav_loop(nav_expand(Head(st.q), 1, [st EXCEPT !.q = Tail(st.q)],
                                  goal, blocked, w, h),
                       start, goal, blocked, w, h)

\* services.nav.bfs_path, for max_len >= 0
bfs_path(start, goal, w, h, blocked, max_len) ==
    IF start = goal THEN Some(<< >>)
    ELSE LET steps == nav_loop([q |-> <<start>>, seen |-> {start}, prev |-> << >>,
                                found |-> FALSE],
                               start, goal, blocked, w, h)
         IN  IF steps.ok THEN Some(SubSeq(steps.val, 1, Min({Len(steps.val), max_len})))
             ELSE None

-----------------------------------------------------------------------------
(* strategies.farm_obstacles: walk to an obstacle, drop a bomb, run away *)

FarmMaxLen == 30
FarmRadius == 9

\* _pick_escape: the cells tried at one radius, the four axis cells first and
\* then the diamond by dx from -radius to radius with dy and -dy
escape_ring(start, radius) ==
    [i \in 1 .. 4 + 2 * (2 * radius + 1) |->
        IF i <= 4
        THEN <<start[1] + radius * Dirs[i][1], start[2] + radius * Dirs[i][2]>>
        ELSE LET j == i - 5
                 dx == (j \div 2) - radius
                 dy == radius - Abs(dx)
             IN  <<start[1] + dx, start[2] + (IF j % 2 = 0 THEN dy ELSE -dy)>>]

\* the first cell of a sequence that is on the map and not forbidden
first_allowed(cands, ctx, forbidden) ==
    LET ok == {i \in DOMAIN cands : inside(cands[i], ctx.w, ctx.h) /\ cands[i] \notin forbidden}
    IN  IF ok = {} THEN None ELSE Some(cands[Min(ok)])

\* _pick_escape from the given radius on
RECURSIVE pick_escape(_, _, _, _)
pick_escape(start, ctx, forbidden, radius) ==
    IF radius > FarmRadius THEN None
    ELSE LET hit == first_allowed(escape_ring(start, radius), ctx, forbidden)
         IN  IF hit.ok THEN hit ELSE pick_escape(start, ctx, forbidden, radius + 1)

any_free_neighbor(p, ctx, forbidden) == first_allowed(neighbors4(p), ctx, forbidden)

\* lines 27-38: the pairs <<obs, i>> whose placement cell neighbors4(obs)[i]
\* is not the unit's cell, not blocked and reachable
farm_places(unit, ctx, blocked) ==
    {c \in ctx.obstacles \X (1 .. 4) :
        LET place == neighbors4(c[1])[c[2]]
        IN  /\ place # unit.pos
            /\ place \notin blocked
            /\ bfs_path(unit.pos, place, ctx.w, ctx.h, blocked, FarmMaxLen).ok}

\* the pairs the scan may end with: `d < best[0]` keeps the first nearest
\* pair, and the set ctx.obstacles may be iterated in any order
farm_best(unit, ctx, blocked) ==
    LET cands == farm_places(unit, ctx, blocked)
        d(c) == Len(bfs_path(unit.pos, neighbors4(c[1])[c[2]], ctx.w, ctx.h, blocked,
                             FarmMaxLen).val)
        nearest == {c \in cands : \A o \in cands : d(c) <= d(o)}
    IN  {c \in nearest : \A o \in nearest : o[1] = c[1] => c[2] <= o[2]}

\* lines 43-73 for the chosen placement cell
farm_plan(unit, ctx, blocked, place) ==
    LET to_place == bfs_path(unit.pos, place, ctx.w, ctx.h, blocked, FarmMaxLen)
        future_blast == danger_from_bomb(place, 1, ctx.walls, ctx.obstacles,
                                         bomb_keys(ctx.bombs) \cup {place}, ctx.w, ctx.h)
        forbidden == ctx.danger \cup future_blast \cup blocked \cup {place}
        picked == pick_escape(place, ctx, forbidden, 1)
        escape == IF picked.ok THEN picked ELSE any_free_neighbor(place, ctx, forbidden)
        from_place == IF escape.ok
                      THEN bfs_path(place, escape.val, ctx.w, ctx.h, blocked, FarmMaxLen)
                      ELSE None
        joined == to_place.val \o from_place.val
        full_path == SubSeq(joined, 1, Min({Len(joined), FarmMaxLen}))
    IN  IF ~to_place.ok \/ to_place.val = << >> THEN None
        ELSE IF ~escape.ok THEN None
        ELSE IF ~from_place.ok THEN None
        ELSE IF place \notin Range(full_path) THEN None
        ELSE Some(UnitPlan(full_path, <<place>>, "farm"))

\* FarmObstaclesStrategy.decide_for_unit: the plans it may return
farm_decide(unit, ctx) ==
    LET blocked == ctx.walls \cup ctx.obstacles \cup bomb_keys(ctx.bombs)
        best == farm_best(unit, ctx, blocked)
    IN  IF unit.bombs_available <= 0 THEN {None}
        ELSE IF ctx.obstacles = {} THEN {None}
        ELSE IF best = {} THEN {None}
        ELSE {farm_plan(unit, ctx, blocked, neighbors4(c[1])[c[2]]) : c \in best}

-----------------------------------------------------------------------------
(* Decision engine *)

\* EngineConfig: max_path = 30, my_bomb_range = 1
MaxPathDefault == 30
EngineBombRange == 1

\* the units taken in the order of the snapshot
sort_units_snapshot_order(us) == us

\* units = [u for u in state.bombers if u.alive and u.can_move], sorted by id
RECURSIVE sort_units(_)
sort_units(us) ==
    IF us = << >> THEN << >>
    ELSE LET i == Min({a \in DOMAIN us : \A b \in DOMAIN us : us[a].id <= us[b].id})
         IN  <<us[i]>> \o sort_units(SubSeq(us, 1, i - 1) \o SubSeq(us, i + 1, Len(us)))

\* every bomber of the snapshot, dead or stuck ones included
movable_everyone(bs) == bs

RECURSIVE movable(_)
movable(bs) ==
    IF bs = << >> THEN << >>
    ELSE (IF Head(bs).alive /\ Head(bs).can_move THEN <<Head(bs)>> ELSE << >>)
         \o movable(Tail(bs))

decide_units(bs) == sort_units(movable(bs))

\* a prefix walk that checks adjacency only
RECURSIVE safe_prefix_adjacent_only(_, _, _)
safe_prefix_adjacent_only(path, cur, blocked) ==
    IF path = << >> THEN << >>
    ELSE IF manhattan(Head(path), cur) # 1 THEN << >>
         ELSE <<Head(path)>> \o safe_prefix_adjacent_only(Tail(path), Head(path), blocked)

\* a prefix walk that stops after the first step
safe_prefix_first_step(path, cur, blocked) ==
    IF path = << >> \/ manhattan(Head(path), cur) # 1 \/ Head(path) \in blocked
    THEN << >> ELSE <<Head(path)>>

\* the longest prefix of path, walked from cur, whose steps are 4-adjacent
\* to their predecessor and not blocked
RECURSIVE safe_prefix(_, _, _)
safe_prefix(path, cur, blocked) ==
    IF path = << >> THEN << >>
    ELSE IF manhattan(Head(path), cur) # 1 \/ Head(path) \in blocked THEN << >>
         ELSE <<Head(path)>> \o safe_prefix(Tail(path), Head(path), blocked)

Take(s, n) == SubSeq(s, 1, IF Len(s) < n THEN Len(s) ELSE n)

\* DecisionEngine._validate_and_clip
validate_and_clip(unit, plan, ctx, max_path) ==
    LET path == Take(plan.path, max_path)
        on_path == FilterCells(plan.bombs, Range(path))
        bombs1 == IF Len(on_path) > unit.bombs_available
                  THEN Take(on_path, unit.bombs_available)
                  ELSE on_path
        blocked == ctx.walls \cup ctx.obstacles \cup bomb_keys(ctx.bombs)
        safe_path == safe_prefix(path, unit.pos, blocked)
        bombs2 == FilterCells(bombs1, Range(safe_path))
    IN  IF safe_path = << >> THEN None
        ELSE Some(UnitPlan(safe_path,
                           IF bombs2 # << >> /\ bombs2[1] # safe_path[1] THEN << >>
                           ELSE bombs2,
                           plan.debug))

\* can_take that looks at the reserved blast only
can_take_blast_only(step, unit, rn, occ, rb) == step \notin rb

\* can_take that forgets the cells the units stand on
can_take_no_occupied(step, unit, rn, occ, rb) ==
    /\ step \notin rn
    /\ step \notin rb

\* can_take that forgets the reserved blast
can_take_no_blast(step, unit, rn, occ, rb) ==
    /\ step \notin rn
    /\ ~(step \in occ /\ step # unit.pos)

\* decide.can_take
can_take(step, unit, rn, occ, rb) ==
    /\ step \notin rn
    /\ ~(step \in occ /\ step # unit.pos)
    /\ step \notin rb

\* the first step of the path that can be taken, if any
RECURSIVE first_free(_, _, _, _, _)
first_free(path, unit, rn, occ, rb) ==
    IF path = << >> THEN None
    ELSE IF can_take(Head(path), unit, rn, occ, rb) THEN Some(Head(path))
         ELSE first_free(Tail(path), unit, rn, occ, rb)

\* a loop body that walks on without the bomb when the bomb cell is taken
resolve_without_bomb(unit, proposal, ctx, max_path, st) ==
    LET valid == IF proposal.ok THEN validate_and_clip(unit, proposal.val, ctx, max_path)
                 ELSE None
        chosen == IF ~valid.ok THEN None
                  ELSE first_free(valid.val.path, unit, st.reserved_next,
                                  st.occupied_now, st.reserved_blast)
        final_bombs == FilterCells(valid.val.bombs, {chosen.val})
    IN  IF ~chosen.ok THEN st
        ELSE [occupied_now |-> st.occupied_now \cup {chosen.val},
              reserved_next |-> st.reserved_next \cup {chosen.val},
              reserved_blast |-> st.reserved_blast,
              cmds |-> Append(st.cmds, [bomber_id |-> unit.id, path |-> <<chosen.val>>,
                                        bombs |-> final_bombs])]

\* the body of the loop of decide for one unit once its strategy has answered;
\* st = [occupied_now, reserved_next, reserved_blast, cmds]
resolve(unit, proposal, ctx, max_path, st) ==
    LET valid == IF proposal.ok THEN validate_and_clip(unit, proposal.val, ctx, max_path)
                 ELSE None
        chosen == IF ~valid.ok THEN None
                  ELSE IF valid.val.bombs # << >>
                       THEN (IF can_take(valid.val.bombs[1], unit, st.reserved_next,
                                         st.occupied_now, st.reserved_blast)
                             THEN Some(valid.val.bombs[1])
                             ELSE None)
                       ELSE first_free(valid.val.path, unit, st.reserved_next,
                                       st.occupied_now, st.reserved_blast)
        final_bombs == FilterCells(valid.val.bombs, {chosen.val})
    IN  IF ~chosen.ok THEN st
        ELSE [occupied_now |-> st.occupied_now \cup {chosen.val},
              reserved_next |-> st.reserved_next \cup {chosen.val},
              reserved_blast |->
                  IF final_bombs = << >> THEN st.reserved_blast
                  ELSE st.reserved_blast \cup
                       danger_from_bomb(chosen.val, EngineBombRange, ctx.walls,
                                        ctx.obstacles,
                                        bomb_keys(ctx.bombs) \cup {chosen.val},
                                        ctx.w, ctx.h),
              cmds |-> Append(st.cmds, [bomber_id |-> unit.id, path |-> <<chosen.val>>,
                                        bombs |-> final_bombs])]

-----------------------------------------------------------------------------
(* Inputs *)

SubsetsUpTo(S, n) == {T \in SUBSET S : Cardinality(T) <= n}

\* walls and obstacles: disjoint sets of cells, MaxStatic cells in all
Statics == {st \in SubsetsUpTo(Cells, MaxStatic) \X SubsetsUpTo(Cells, MaxStatic) :
               st[1] \cap st[2] = {} /\ Cardinality(st[1] \cup st[2]) <= MaxStatic}

\* the snapshot's bomb lists: up to n bombs on distinct free cells
BombLists(free, n, ranges, timers) ==
    LET B == [pos : free, range : ranges, timer : timers]
    IN  UNION {{bs \in [1 .. m -> B] :
                   \A i, j \in 1 .. m : i # j => bs[i].pos # bs[j].pos} : m \in 0 .. n}

NoCall == [op |-> "none"]

\* the variables of the decision pass, unused by the pure-function specifications
EngineIdle ==
    /\ bombers = << >>
    /\ mobs = << >>
    /\ assign = << >>
    /\ instances = << >>
    /\ pc = "pure"
    /\ k = 0
    /\ occupied_now = {}
    /\ reserved_next = {}
    /\ reserved_blast = {}
    /\ cmds = << >>

ArenaVars == <<walls, obstacles, bombs, map_size>>
EngineVars == <<bombers, mobs, assign, instances, pc, k,
                occupied_now, reserved_next, reserved_blast, cmds>>
ThreadVars == <<control, lock, readers>>
RunnerVars == <<runner_pc, cache, booster, sent, tick, ThreadVars>>
TraceVars == <<created, called, passes>>

\* nothing created or called yet
NoTrace ==
    /\ created = << >>
    /\ called = {}
    /\ passes = 0

\* BotControl as constructed, nobody in the cache, no reader thread
ThreadsOff ==
    /\ control = [running |-> TRUE, paused |-> FALSE]
    /\ lock = {}
    /\ readers = << >>

\* no tick loop is running
RunnerOff ==
    /\ runner_pc = "off"
    /\ cache = [state |-> None, error |-> FALSE]
    /\ booster = FALSE
    /\ sent = << >>
    /\ tick = 0
    /\ ThreadsOff

-----------------------------------------------------------------------------
(* blast_cross applied to any origin and range *)

InitBlast ==
    /\ \E st \in Statics :
          /\ walls = st[1]
          /\ obstacles = st[2]
          /\ bombs \in BombLists(Cells \ (st[1] \cup st[2]), MaxBombs, {1}, {DangerTimer})
    /\ map_size = <<W, H>>
    /\ EngineIdle
    /\ RunnerOff
    /\ NoTrace
    /\ call = NoCall

ApplyBlastCross ==
    /\ call.op = "none"
    /\ \E pos \in Cells, r \in 0 .. MaxRange :
          call' = [op |-> "blast_cross", pos |-> pos, bomb_range |-> r,
                   out |-> blast_cross(pos, r, walls, obstacles, bomb_keys(bombs))]
    /\ UNCHANGED <<RunnerVars, TraceVars, ArenaVars, EngineVars>>

SpecBlast == InitBlast /\ [][ApplyBlastCross]_vars

-----------------------------------------------------------------------------
(* build_danger and _min_explosion_map applied to any bomb list *)

DangerTimers == {10, DangerTimer, 30}

InitDanger ==
    /\ \E st \in Statics :
          /\ walls = st[1]
          /\ obstacles = st[2]
          /\ bombs \in BombLists(Cells \ (st[1] \cup st[2]), MaxBombs,
                                 1 .. MaxRange, DangerTimers)
    /\ map_size = <<W, H>>
    /\ EngineIdle
    /\ RunnerOff
    /\ NoTrace
    /\ call = NoCall

ApplyBuildDanger ==
    /\ call.op = "none"
    /\ \E thr \in {10, DangerTimer} :
          call' = [op |-> "build_danger", timer_threshold |-> thr,
                   out |-> build_danger(bombs_dict(bombs), thr, walls, obstacles)]
    /\ UNCHANGED <<RunnerVars, TraceVars, ArenaVars, EngineVars>>

ApplyMinExplosionMap ==
    /\ call.op = "none"
    /\ call' = [op |-> "min_explosion_map",
                out |-> min_explosion_map(bombs_dict(bombs), Len(bombs_dict(bombs)),
                                          walls, obstacles, W, H)]
    /\ UNCHANGED <<RunnerVars, TraceVars, ArenaVars, EngineVars>>

NextDanger == ApplyBuildDanger \/ ApplyMinExplosionMap

SpecDanger == InitDanger /\ [][NextDanger]_vars

-----------------------------------------------------------------------------
(* DecisionEngine.decide: one pass over a snapshot *)

MaxPlanLen == 2
MaxAvail == 2

Bomber(id, pos, alive, can_move, bombs_available) ==
    [id |-> id, pos |-> pos, alive |-> alive, can_move |-> can_move,
     bombs_available |-> bombs_available]

\* DecisionContext built by decide from the snapshot
Ctx == [w |-> map_size[1], h |-> map_size[2], walls |-> walls, obstacles |-> obstacles,
        bombs |-> bombs_dict(bombs), bombers |-> bombers, mobs |-> mobs]

\* AssignmentStore.get_for
get_for(unit_id) ==
    IF unit_id \in DOMAIN assign THEN assign[unit_id] ELSE "farm_obstacles"

\* the private state of a strategy instance the registry has just created
create(strategy_id) ==
    IF strategy_id = "safe_bomb" THEN NewSafeBomb ELSE [prev_pos |-> NoPos, escape_plan |-> << >>]

\* a lookup that never finds the cached instance
cache_miss_always(key) == TRUE

\* _decide_one: strat is None, nothing is cached under the key
cache_miss(key) == key \notin DOMAIN instances

\* _decide_one: the strategy instance cached under (unit id, strategy id)
instance_of(key) == IF cache_miss(key) THEN create(key[2]) ELSE instances[key]

\* the object cached under the key: the one created last for it
oid_of(key) == CHOOSE i \in DOMAIN created :
                  /\ created[i] = key
                  /\ \A j \in DOMAIN created : created[j] = key => j <= i

\* _decide_one: the object decide_for_unit is called on, and the record of the call
object_of(key) == IF cache_miss(key) THEN Len(created) + 1 ELSE oid_of(key)

created_by(key) == IF cache_miss(key) THEN Append(created, key) ELSE created

called_with(key) == called \cup {[oid |-> object_of(key), key |-> key, pass |-> passes]}

\* cells a plan of an arbitrary Strategy may name next to cell c: the four
\* neighbours, c itself and a diagonal cell
PlanSteps(c) == {neighbors4(c)[i] : i \in 1 .. 4} \cup {c, <<c[1] + 1, c[2] + 1>>}

PlanPaths(pos) ==
    {<< >>} \cup {<<a>> : a \in PlanSteps(pos)}
            \cup UNION {{<<a, b>> : b \in Range(neighbors4(a))} : a \in PlanSteps(pos)}

\* bomb lists of a plan: empty, off the path, one cell of the path, or two
\* cells starting with the first step
PlanBombs(path, pos) ==
    {<< >>, <<pos>>} \cup {<<a>> : a \in Range(path)}
                     \cup {<<path[1], a>> : a \in Range(path)}

\* Strategy.decide_for_unit of an arbitrary strategy: None or any plan
AnyPlans(unit) ==
    {None} \cup UNION {{Some(UnitPlan(path, bs, "")) : bs \in PlanBombs(path, unit.pos)} :
                          path \in PlanPaths(unit.pos)}

\* RandomWalkStrategy.decide_for_unit: one step to a free neighbour drawn by
\* random.choice from the process-wide generator, so every option is a
\* possible answer; ctx.bomb_cells is the set of cells holding a bomb
random_walk(unit, ctx) ==
    LET blocked == ctx.walls \cup ctx.obstacles \cup bomb_keys(ctx.bombs)
        options == {p \in Range(neighbors4(unit.pos)) : inside(p, ctx.w, ctx.h) /\ p \notin blocked}
    IN  IF options = {} THEN {None}
        ELSE {Some(UnitPlan(<<p>>, << >>, "rnd")) : p \in options}

\* the ids the registry has a factory for: SafeBombStrategy, RandomWalkStrategy,
\* an arbitrary well-behaved strategy and one whose decide_for_unit raises
Registered == {"safe_bomb", "random_walk", "any", "faulty"}

\* _decide_one raises: registry.create has no factory for the id (KeyError),
\* or the strategy itself raises
raises(strategy_id) == strategy_id \notin Registered \/ strategy_id = "faulty"

\* what strategy strategy_id may answer for the unit, with the private state it keeps
decide_for_unit(strategy_id, unit, inst) ==
    IF strategy_id = "safe_bomb" THEN {safe_decide(unit, Ctx, inst)}
    ELSE IF strategy_id = "random_walk" THEN {[plan |-> p, inst |-> inst] : p \in random_walk(unit, Ctx)}
    ELSE {[plan |-> p, inst |-> inst] : p \in AnyPlans(unit)}

\* decide, lines 30-63: the context, the sorted units and the empty reservations
DecideBegin ==
    /\ pc = "idle"
    /\ pc' = "loop"
    /\ k' = 1
    /\ occupied_now' = {decide_units(bombers)[i].pos : i \in DOMAIN decide_units(bombers)}
    /\ reserved_next' = {}
    /\ reserved_blast' = {}
    /\ cmds' = << >>
    /\ passes' = passes + 1
    /\ UNCHANGED <<RunnerVars, ArenaVars, bombers, mobs, assign, instances, call, created, called>>

\* decide, lines 64-117: one iteration of the loop over the units
DecideUnit ==
    /\ pc = "loop"
    /\ k <= Len(decide_units(bombers))
    /\ ~raises(get_for(decide_units(bombers)[k].id))
    /\ LET unit == decide_units(bombers)[k]
           key == <<unit.id, get_for(unit.id)>>
       IN  \E r \in decide_for_unit(key[2], unit, instance_of(key)) :
              LET st == resolve(unit, r.plan, Ctx, MaxPathDefault,
                                [occupied_now |-> occupied_now,
                                 reserved_next |-> reserved_next,
                                 reserved_blast |-> reserved_blast, cmds |-> cmds])
              IN  /\ instances' = (key :> r.inst) @@ instances
                  /\ occupied_now' = st.occupied_now
                  /\ reserved_next' = st.reserved_next
                  /\ reserved_blast' = st.reserved_blast
                  /\ cmds' = st.cmds
                  /\ created' = created_by(key)
                  /\ called' = called_with(key)
    /\ k' = k + 1
    /\ UNCHANGED <<RunnerVars, ArenaVars, bombers, mobs, assign, pc, call, passes>>

\* decide, lines 64-66: _decide_one raises for the unit; nothing in decide
\* catches it, the pass ends without returning and its local cmds are lost.
\* A strategy that could be created stays cached (lines 125-126)
DecideRaise ==
    /\ pc = "loop"
    /\ k <= Len(decide_units(bombers))
    /\ LET unit == decide_units(bombers)[k]
           key == <<unit.id, get_for(unit.id)>>
       IN  /\ raises(key[2])
           /\ instances' = IF key[2] \in Registered
                            THEN (key :> instance_of(key)) @@ instances ELSE instances
           /\ call' = [op |-> "raise", unit |-> unit.id, cmds |-> cmds]
           /\ created' = IF key[2] \in Registered THEN created_by(key) ELSE created
           /\ called' = IF key[2] \in Registered THEN called_with(key) ELSE called
    /\ pc' = "raised"
    /\ cmds' = << >>
    /\ UNCHANGED <<RunnerVars, ArenaVars, bombers, mobs, assign, k,
                   occupied_now, reserved_next, reserved_blast, passes>>

\* decide, line 119: return cmds
DecideReturn ==
    /\ pc = "loop"
    /\ k > Len(decide_units(bombers))
    /\ pc' = "done"
    /\ UNCHANGED <<RunnerVars, TraceVars, ArenaVars, bombers, mobs, assign, instances, k,
                   occupied_now, reserved_next, reserved_blast, cmds, call>>

Next == DecideBegin \/ DecideUnit \/ DecideReturn

\* a fresh engine, about to be given a snapshot
EngineFresh ==
    /\ instances = << >>
    /\ pc = "idle"
    /\ k = 0
    /\ occupied_now = {}
    /\ reserved_next = {}
    /\ reserved_blast = {}
    /\ cmds = << >>
    /\ call = NoCall

\* the arena of the engine runs: SmallW x SmallH cells, at most one blocking
\* cell, at a corner or in the middle of the long side
SmallW == 3
SmallH == 2
SmallCells == (0 .. SmallW - 1) \X (0 .. SmallH - 1)
BlockerSpots == {<<0, 0>>, <<1, 0>>}

SmallArenas ==
    {[walls |-> {}, obstacles |-> {}, bombs |-> << >>]}
    \cup {[walls |-> {c}, obstacles |-> {}, bombs |-> << >>] : c \in BlockerSpots}
    \cup {[walls |-> {}, obstacles |-> {c}, bombs |-> << >>] : c \in BlockerSpots}
    \cup {[walls |-> {}, obstacles |-> {},
           bombs |-> <<[pos |-> c, range |-> 1, timer |-> DangerTimer]>>] : c \in BlockerSpots}

\* snapshots with two bombers: any order of the ids, any free cells, up to
\* one of the two dead or unable to move
Flags == {<<TRUE, TRUE>>, <<FALSE, TRUE>>, <<TRUE, FALSE>>}

TwoBombers(free, avail1, avail2) ==
    {<<Bomber(ids[1], p[1], TRUE, TRUE, a1), Bomber(ids[2], p[2], f[1], f[2], a2)>> :
        ids \in {<<1, 2>>, <<2, 1>>}, p \in {q \in free \X free : q[1] # q[2]},
        a1 \in avail1, a2 \in avail2, f \in Flags}

\* a snapshot whose bombers are all run by an arbitrary strategy
Init ==
    /\ \E a \in SmallArenas :
          /\ walls = a.walls
          /\ obstacles = a.obstacles
          /\ bombs = a.bombs
          /\ bombers \in TwoBombers(SmallCells \ (a.walls \cup a.obstacles \cup
                                                   {a.bombs[i].pos : i \in DOMAIN a.bombs}),
                                    {0, MaxAvail}, {1})
    /\ map_size = <<SmallW, SmallH>>
    /\ mobs = << >>
    /\ assign = [i \in {1, 2} |-> "any"]
    /\ EngineFresh
    /\ RunnerOff
    /\ NoTrace

Spec == Init /\ [][Next]_vars

\* the scenes of the SafeBomb runs: one bomb ticking, or one mob awake
MaxMobs == 1
SafeTimers == {10, 20, 30}

SafeScenes(free) ==
    {[bombs |-> bs, mobs |-> << >>] : bs \in BombLists(free, 1, {1}, SafeTimers)}
    \cup {[bombs |-> << >>, mobs |-> ms] :
             ms \in UNION {[1 .. m -> [pos : free, safe_time : {0}]] : m \in 1 .. MaxMobs}}

\* a snapshot whose bombers are all run by SafeBombStrategy
InitSafe ==
    /\ walls = {}
    /\ obstacles \in SubsetsUpTo(Cells, MaxStatic)
    /\ \E sc \in SafeScenes(Cells \ obstacles) :
          /\ bombs = sc.bombs
          /\ mobs = sc.mobs
          /\ \E bs \in TwoBombers(Cells \ (obstacles \cup {sc.bombs[i].pos : i \in DOMAIN sc.bombs}),
                                  {0, 1}, {1}) :
                /\ bs[1].id = 2
                /\ bs[2].alive /\ bs[2].can_move
                /\ bombers = bs
    /\ map_size = <<W, H>>
    /\ assign = [i \in {1, 2} |-> "safe_bomb"]
    /\ EngineFresh
    /\ RunnerOff
    /\ NoTrace

SpecSafe == InitSafe /\ [][Next]_vars

-----------------------------------------------------------------------------
(* Two decision passes over one snapshot: the second pass starts from the   *)
(* engine state the first one started from, on the same snapshot or on the  *)
(* snapshot with its bombers listed in the opposite order                   *)

RECURSIVE Reverse(_)
Reverse(s) == IF s = << >> THEN << >> ELSE Append(Reverse(Tail(s)), Head(s))

\* the first pass has returned: its commands are kept for comparison and the
\* engine is put back into the state the first pass started from
DecideAgain ==
    /\ pc = "done"
    /\ call = NoCall
    /\ call' = [op |-> "again", cmds |-> cmds]
    /\ instances' = << >>
    /\ created' = << >>
    /\ called' = {}
    /\ passes' = 0
    /\ pc' = "idle"
    /\ UNCHANGED <<RunnerVars, ArenaVars, bombers, mobs, assign, k,
                   occupied_now, reserved_next, reserved_blast, cmds>>

\* the same, with the bombers of the snapshot listed in the opposite order
DecidePermuted ==
    /\ pc = "done"
    /\ call = NoCall
    /\ call' = [op |-> "permuted", cmds |-> cmds]
    /\ bombers' = Reverse(bombers)
    /\ instances' = << >>
    /\ created' = << >>
    /\ called' = {}
    /\ passes' = 0
    /\ pc' = "idle"
    /\ UNCHANGED <<RunnerVars, ArenaVars, mobs, assign, k,
                   occupied_now, reserved_next, reserved_blast, cmds>>

NextRerun == DecideBegin \/ DecideUnit \/ DecideReturn \/ DecideAgain \/ DecidePermuted

\* the strategies bound to bombers 1 and 2 in the two-pass runs
RerunBindings == {<<"safe_bomb", "safe_bomb">>, <<"random_walk", "safe_bomb">>}
RerunBombSpots == {<<0, 0>>, <<1, 1>>}

InitRerun ==
    /\ walls = {}
    /\ obstacles \in SubsetsUpTo(Cells, MaxStatic)
    /\ bombs \in BombLists(RerunBombSpots \ obstacles, 1, {1}, {30})
    /\ mobs = << >>
    /\ bombers \in TwoBombers(Cells \ (obstacles \cup {bombs[i].pos : i \in DOMAIN bombs}),
                               {1}, {1})
    /\ map_size = <<W, H>>
    /\ assign \in {[i \in {1, 2} |-> b[i]] : b \in RerunBindings}
    /\ EngineFresh
    /\ RunnerOff
    /\ NoTrace

SpecRerun == InitRerun /\ [][NextRerun]_vars

-----------------------------------------------------------------------------
(* A decision pass in which the strategy of one unit fails *)

NextFaulty == DecideBegin \/ DecideUnit \/ DecideRaise \/ DecideReturn

\* one bomber is bound to a strategy that raises or to an id without a
\* factory, the other to a strategy that answers
FaultyBindings == {<<"any", "faulty">>, <<"faulty", "any">>,
                   <<"any", "missing">>, <<"missing", "safe_bomb">>}

InitFaulty ==
    /\ \E a \in SmallArenas :
          /\ walls = a.walls
          /\ obstacles = a.obstacles
          /\ bombs = a.bombs
          /\ bombers \in TwoBombers(SmallCells \ (a.walls \cup a.obstacles \cup
                                                   {a.bombs[i].pos : i \in DOMAIN a.bombs}),
                                    {1}, {1})
    /\ map_size = <<SmallW, SmallH>>
    /\ mobs = << >>
    /\ assign \in {[i \in {1, 2} |-> b[i]] : b \in FaultyBindings}
    /\ EngineFresh
    /\ RunnerOff
    /\ NoTrace

SpecFaulty == InitFaulty /\ [][NextFaulty]_vars

-----------------------------------------------------------------------------
(* Several decision passes on one engine; between two passes the operator   *)
(* may bind other strategies to the units                                   *)

MaxPasses == 3

PassBindings == {<<a, b>> : a, b \in {"safe_bomb", "random_walk"}}

\* decide has returned and is called again on the engine, after
\* AssignmentStore.set_for may have changed the bindings
DecideNextPass ==
    /\ pc = "done"
    /\ passes < MaxPasses
    /\ pc' = "idle"
    /\ assign' \in {[i \in {1, 2} |-> b[i]] : b \in PassBindings}
    /\ UNCHANGED <<RunnerVars, TraceVars, ArenaVars, bombers, mobs, instances, k,
                   occupied_now, reserved_next, reserved_blast, cmds, call>>

NextPasses == DecideBegin \/ DecideUnit \/ DecideReturn \/ DecideNextPass

InitPasses ==
    /\ walls = {}
    /\ obstacles \in SubsetsUpTo(Cells, MaxStatic)
    /\ bombs = << >>
    /\ mobs = << >>
    /\ \E bs \in TwoBombers(Cells \ obstacles, {1}, {1}) :
          /\ bs[1].id = 1
          /\ bs[2].alive /\ bs[2].can_move
          /\ bombers = bs
    /\ map_size = <<W, H>>
    /\ assign = <<"safe_bomb", "random_walk">>
    /\ EngineFresh
    /\ RunnerOff
    /\ NoTrace

SpecPasses == InitPasses /\ [][NextPasses]_vars

-----------------------------------------------------------------------------
(* The tick loop of BotRunner.run; the decision pass is taken as a whole *)

MaxTicks == 3

\* snapshots the server may answer with, told apart by their round
Rounds == {1, 2}

\* how ApiClient.get_arena may end: "ok" returns a GameState; "transport" is
\* a connection error or timeout of session.request; "http_status" is
\* raise_for_status; "bad_json" is response.json() on a body that is not
\* JSON; "partial" is GameState.from_dict on JSON that lacks a required key
\* (map_size, or id/alive/pos of a bomber), a KeyError or TypeError
FetchOutcomes == {"ok", "transport", "http_status", "bad_json", "partial"}

\* whether `except requests.RequestException` catches the failure: the error
\* of response.json() is a RequestException in some versions of requests and
\* a plain ValueError in others
caught_by_run(outcome) ==
    CASE outcome \in {"transport", "http_status"} -> {TRUE}
      [] outcome = "bad_json" -> {TRUE, FALSE}
      [] outcome = "partial" -> {FALSE}

\* run, lines 36-48: the pause check is left out, the loop is running
RunGetArena ==
    /\ runner_pc = "get_arena"
    /\ tick < MaxTicks
    /\ \E outcome \in FetchOutcomes :
          /\ call' = [op |-> "get_arena", outcome |-> outcome,
                      state |-> cache.state, sent |-> sent]
          /\ IF outcome = "ok"
             THEN /\ \E round \in Rounds : cache' = [cache EXCEPT !.state = Some(round)]
                  /\ runner_pc' = "booster"
                  /\ tick' = tick
             ELSE \E caught \in caught_by_run(outcome) :
                     IF caught
                     THEN /\ cache' = [cache EXCEPT !.error = TRUE]
                          /\ runner_pc' = "get_arena"
                          /\ tick' = tick + 1
                     ELSE /\ cache' = cache
                          /\ runner_pc' = "dead"
                          /\ tick' = tick
    /\ UNCHANGED <<ArenaVars, EngineVars, TraceVars, ThreadVars, booster, sent>>

\* run, lines 50-88: the booster refresh, engine.decide and send_move
RunDecideAndSend ==
    /\ runner_pc = "booster"
    /\ \E refreshed \in BOOLEAN, decided \in {"raise", "empty", "commands"} :
          /\ booster' = (booster \/ refreshed)
          /\ cache' = [cache EXCEPT !.error = (@ \/ (booster' /\ decided = "raise"))]
          /\ sent' = IF booster' /\ decided = "commands" THEN Append(sent, tick) ELSE sent
    /\ runner_pc' = "get_arena"
    /\ tick' = tick + 1
    /\ UNCHANGED <<ArenaVars, EngineVars, TraceVars, ThreadVars, call>>

NextRunner == RunGetArena \/ RunDecideAndSend

InitRunner ==
    /\ walls = {}
    /\ obstacles = {}
    /\ bombs = << >>
    /\ map_size = <<W, H>>
    /\ EngineIdle
    /\ call = NoCall
    /\ runner_pc = "get_arena"
    /\ cache = [state |-> None, error |-> FALSE]
    /\ booster = FALSE
    /\ sent = << >>
    /\ tick = 0
    /\ ThreadsOff
    /\ NoTrace

SpecRunner == InitRunner /\ [][NextRunner]_vars

-----------------------------------------------------------------------------
(* SafeBombStrategy.decide_for_unit on a snapshot with one mob, asleep or
   awake, and on the same snapshot without the mob *)

\* Mob.safe_time in ms: 0 for a mob that is awake, above 0 for one asleep
SafeTimes == {0, 1000}

InitMobs ==
    /\ walls = {}
    /\ obstacles \in SubsetsUpTo(Cells, MaxStatic)
    /\ bombs = << >>
    /\ map_size = <<W, H>>
    /\ \E pos \in Cells \ obstacles, avail \in 0 .. 1 :
          bombers = <<Bomber(1, pos, TRUE, TRUE, avail)>>
    /\ \E pos \in Cells \ obstacles, safe_time \in SafeTimes :
          mobs = <<[pos |-> pos, safe_time |-> safe_time]>>
    /\ assign = << >>
    /\ instances = << >>
    /\ pc = "pure"
    /\ k = 0
    /\ occupied_now = {}
    /\ reserved_next = {}
    /\ reserved_blast = {}
    /\ cmds = << >>
    /\ call = NoCall
    /\ RunnerOff
    /\ NoTrace

\* a fresh SafeBombStrategy decides for the unit with and without the mob
ApplyDecideWithMob ==
    /\ call.op = "none"
    /\ pc = "pure"
    /\ call' = [op |-> "decide_with_mob", unit |-> bombers[1], mob |-> mobs[1],
                plan |-> safe_decide(bombers[1], Ctx, NewSafeBomb).plan,
                plan_without |-> safe_decide(bombers[1], [Ctx EXCEPT !.mobs = << >>],
                                             NewSafeBomb).plan,
                plan_awake |-> safe_decide(bombers[1],
                                           [Ctx EXCEPT !.mobs[1].safe_time = 0],
                                           NewSafeBomb).plan]
    /\ UNCHANGED <<RunnerVars, TraceVars, ArenaVars, EngineVars>>

SpecMobs == InitMobs /\ [][ApplyDecideWithMob]_vars

-----------------------------------------------------------------------------
(* BotRunner.run with its pause and stop checks, and the control surface
   writing BotControl from another thread *)

\* run, line 36: `while self.control.running`
RunWhile ==
    /\ runner_pc = "while"
    /\ tick < MaxTicks
    /\ runner_pc' = IF control.running THEN "if_paused" ELSE "returned"
    /\ UNCHANGED <<ArenaVars, EngineVars, TraceVars, ThreadVars, cache, booster, sent,
                   tick, call>>

\* run, lines 38-40: `if self.control.paused: sleep; continue`
RunIfPaused ==
    /\ runner_pc = "if_paused"
    /\ IF control.paused
       THEN runner_pc' = "while" /\ tick' = tick + 1
       ELSE runner_pc' = "get_arena" /\ tick' = tick
    /\ UNCHANGED <<ArenaVars, EngineVars, TraceVars, ThreadVars, cache, booster, sent, call>>

\* run, lines 42-48: the fetch starts; `call` keeps what BotControl held then
RunFetch ==
    /\ runner_pc = "get_arena"
    /\ \E outcome \in {"ok", "transport"} :
          /\ call' = [op |-> "get_arena", outcome |-> outcome, tick |-> tick,
                      paused |-> control.paused, running |-> control.running]
          /\ IF outcome = "ok"
             THEN /\ \E round \in Rounds : cache' = [cache EXCEPT !.state = Some(round)]
                  /\ runner_pc' = "decide"
                  /\ tick' = tick
             ELSE /\ cache' = [cache EXCEPT !.error = TRUE]
                  /\ runner_pc' = "while"
                  /\ tick' = tick + 1
    /\ UNCHANGED <<ArenaVars, EngineVars, TraceVars, ThreadVars, booster, sent>>

\* run, lines 50-88: the booster refresh, engine.decide and send_move; none
\* of them reads running or paused
RunFinishTick ==
    /\ runner_pc = "decide"
    /\ \E refreshed \in BOOLEAN, decided \in {"raise", "empty", "commands"} :
          /\ booster' = (booster \/ refreshed)
          /\ cache' = [cache EXCEPT !.error = (@ \/ (booster' /\ decided = "raise"))]
          /\ sent' = IF booster' /\ decided = "commands" THEN Append(sent, tick) ELSE sent
          /\ call' = [op |-> "tick", tick |-> tick, decided |-> booster',
                      paused |-> control.paused, running |-> control.running]
    /\ runner_pc' = "while"
    /\ tick' = tick + 1
    /\ UNCHANGED <<ArenaVars, EngineVars, TraceVars, ThreadVars>>

\* webapp set_status, lines 72-73, on a thread of the web server
SetStatus ==
    /\ \E paused \in BOOLEAN : control' = [control EXCEPT !.paused = paused]
    /\ UNCHANGED <<ArenaVars, EngineVars, TraceVars, lock, readers, runner_pc, cache,
                   booster, sent, tick, call>>

\* BotControl.running is cleared by whoever holds the control object
SetStopped ==
    /\ control.running
    /\ control' = [control EXCEPT !.running = FALSE]
    /\ UNCHANGED <<ArenaVars, EngineVars, TraceVars, lock, readers, runner_pc, cache,
                   booster, sent, tick, call>>

NextControl ==
    \/ RunWhile
    \/ RunIfPaused
    \/ RunFetch
    \/ RunFinishTick
    \/ SetStatus
    \/ SetStopped

InitControl ==
    /\ walls = {}
    /\ obstacles = {}
    /\ bombs = << >>
    /\ map_size = <<W, H>>
    /\ EngineIdle
    /\ call = NoCall
    /\ runner_pc = "while"
    /\ cache = [state |-> None, error |-> FALSE]
    /\ booster = FALSE
    /\ sent = << >>
    /\ tick = 0
    /\ ThreadsOff
    /\ NoTrace

SpecControl == InitControl /\ [][NextControl]_vars

-----------------------------------------------------------------------------
(* StateCache shared by the tick loop, its only writer, and reader threads *)

MaxReaders == 2

RunThread == <<"run", 0>>

Readers == {<<"reader", i>> : i \in 1 .. MaxReaders}

\* a lock that lets every thread in
acquire_unguarded(thread) == TRUE

\* `with self._lock`: the RLock is free or already held by the thread
acquire(thread) == lock \subseteq {thread}

\* run, line 43-44: get_arena has answered and set_state(state) is called
CacheSetCall ==
    /\ runner_pc = "get_arena"
    /\ tick < MaxTicks
    /\ \E round \in Rounds :
          call' = [op |-> "set_state", arg |-> Some(round), completed |-> call.completed]
    /\ runner_pc' = "set_state.acquire"
    /\ UNCHANGED <<ArenaVars, EngineVars, TraceVars, ThreadVars, cache, booster, sent, tick>>

\* set_state, line 28
CacheSetAcquire ==
    /\ runner_pc = "set_state.acquire"
    /\ acquire(RunThread)
    /\ lock' = lock \cup {RunThread}
    /\ runner_pc' = "set_state.state"
    /\ UNCHANGED <<ArenaVars, EngineVars, TraceVars, control, readers, cache, booster,
                   sent, tick, call>>

\* set_state, line 29
CacheSetState ==
    /\ runner_pc = "set_state.state"
    /\ cache' = [cache EXCEPT !.state = call.arg]
    /\ runner_pc' = "set_state.ts"
    /\ UNCHANGED <<ArenaVars, EngineVars, TraceVars, ThreadVars, booster, sent, tick, call>>

\* set_state, line 30: time.time() is taken as the number of the call
CacheSetTs ==
    /\ runner_pc = "set_state.ts"
    /\ cache' = [cache EXCEPT !.state_ts = tick + 1]
    /\ runner_pc' = "set_state.release"
    /\ UNCHANGED <<ArenaVars, EngineVars, TraceVars, ThreadVars, booster, sent, tick, call>>

\* set_state returns: the lock is released and the call is complete
CacheSetRelease ==
    /\ runner_pc = "set_state.release"
    /\ lock' = lock \ {RunThread}
    /\ call' = [call EXCEPT !.completed = call.arg]
    /\ tick' = tick + 1
    /\ runner_pc' = "get_arena"
    /\ UNCHANGED <<ArenaVars, EngineVars, TraceVars, control, readers, cache, booster, sent>>

\* a reader thread calls get_state
CacheGetCall(r) ==
    /\ readers[r].pc = "idle"
    /\ readers' = [readers EXCEPT ![r].pc = "get_state.acquire"]
    /\ UNCHANGED <<ArenaVars, EngineVars, TraceVars, control, lock, runner_pc, cache,
                   booster, sent, tick, call>>

\* get_state, line 33
CacheGetAcquire(r) ==
    /\ readers[r].pc = "get_state.acquire"
    /\ acquire(r)
    /\ lock' = lock \cup {r}
    /\ readers' = [readers EXCEPT ![r].pc = "get_state.read"]
    /\ UNCHANGED <<ArenaVars, EngineVars, TraceVars, control, runner_pc, cache,
                   booster, sent, tick, call>>

\* get_state, line 34: the value read, with the argument of the last
\* completed set_state and the timestamp at that moment
CacheGetRead(r) ==
    /\ readers[r].pc = "get_state.read"
    /\ readers' = [readers EXCEPT ![r] = [pc |-> "get_state.release", got |-> cache.state,
                                          ts |-> cache.state_ts,
                                          completed |-> call.completed, sets |-> tick]]
    /\ UNCHANGED <<ArenaVars, EngineVars, TraceVars, control, lock, runner_pc, cache,
                   booster, sent, tick, call>>

\* get_state returns
CacheGetRelease(r) ==
    /\ readers[r].pc = "get_state.release"
    /\ lock' = lock \ {r}
    /\ readers' = [readers EXCEPT ![r].pc = "idle"]
    /\ UNCHANGED <<ArenaVars, EngineVars, TraceVars, control, runner_pc, cache,
                   booster, sent, tick, call>>

NextCache ==
    \/ CacheSetCall
    \/ CacheSetAcquire
    \/ CacheSetState
    \/ CacheSetTs
    \/ CacheSetRelease
    \/ \E r \in Readers : CacheGetCall(r)
    \/ \E r \in Readers : CacheGetAcquire(r)
    \/ \E r \in Readers : CacheGetRead(r)
    \/ \E r \in Readers : CacheGetRelease(r)

InitCache ==
    /\ walls = {}
    /\ obstacles = {}
    /\ bombs = << >>
    /\ map_size = <<W, H>>
    /\ EngineIdle
    /\ call = [op |-> "set_state", arg |-> None, completed |-> None]
    /\ runner_pc = "get_arena"
    /\ cache = [state |-> None, state_ts |-> 0, error |-> FALSE]
    /\ booster = FALSE
    /\ sent = << >>
    /\ tick = 0
    /\ control = [running |-> TRUE, paused |-> FALSE]
    /\ lock = {}
    /\ readers = [r \in Readers |-> [pc |-> "idle", got |-> None, ts |-> 0,
                                      completed |-> None, sets |-> 0]]
    /\ NoTrace

SpecCache == InitCache /\ [][NextCache]_vars

-----------------------------------------------------------------------------
(* SafeBombStrategy.decide_for_unit applied to any unit and private state *)

StrategyTimers == {10, 30}

\* private states a SafeBombStrategy can be in when called for a unit at pos:
\* fresh, having stood on a neighbour, or holding an escape queue
StrategyStates(pos) ==
    {[prev_pos |-> pp, escape_plan |-> << >>] : pp \in {NoPos, neighbors4(pos)[1]}}
    \cup {[prev_pos |-> NoPos, escape_plan |-> <<neighbors4(pos)[i]>>] : i \in 1 .. 4}
    \cup {[prev_pos |-> NoPos, escape_plan |-> <<neighbors4(pos)[3], pos>>]}

StrategyScenes(free) ==
    {[bombs |-> bs, mobs |-> << >>] : bs \in BombLists(free, 1, {1}, StrategyTimers)}
    \cup {[bombs |-> << >>, mobs |-> ms] :
             ms \in UNION {[1 .. m -> [pos : free, safe_time : {0}]] : m \in 1 .. MaxMobs}}

\* the unit comes first in the snapshot; with a strategy that is not fresh
\* the unit is bomber 1, has a bomb, and the other bomber is alive
InitStrategy ==
    /\ walls = {}
    /\ obstacles \in SubsetsUpTo(Cells, MaxStatic)
    /\ \E sc \in StrategyScenes(Cells \ obstacles) :
          /\ bombs = sc.bombs
          /\ mobs = sc.mobs
          /\ \E bs \in TwoBombers(Cells \ (obstacles \cup {sc.bombs[i].pos : i \in DOMAIN sc.bombs}),
                                  {0, 1}, {1}) :
                /\ bs[2].can_move
                /\ bombers = bs
                /\ \E inst \in StrategyStates(bs[1].pos) :
                      /\ \/ inst = NewSafeBomb
                         \/ bs[2].alive /\ bs[1].id = 1 /\ bs[1].bombs_available = 1
                      /\ instances = (<<bs[1].id, "safe_bomb">> :> inst)
    /\ map_size = <<W, H>>
    /\ assign = [i \in {1, 2} |-> "safe_bomb"]
    /\ pc = "pure"
    /\ k = 0
    /\ occupied_now = {}
    /\ reserved_next = {}
    /\ reserved_blast = {}
    /\ cmds = << >>
    /\ call = NoCall
    /\ RunnerOff
    /\ NoTrace

ApplySafeDecide ==
    /\ call.op = "none"
    /\ pc = "pure"
    /\ LET unit == bombers[1]
           key == <<unit.id, "safe_bomb">>
           out == safe_decide(unit, Ctx, instances[key])
       IN  /\ call' = [op |-> "safe_decide", unit |-> unit, inst |-> instances[key],
                       plan |-> out.plan]
           /\ instances' = [instances EXCEPT ![key] = out.inst]
    /\ UNCHANGED <<RunnerVars, TraceVars, ArenaVars, bombers, mobs, assign, pc, k,
                   occupied_now, reserved_next, reserved_blast, cmds>>

SpecStrategy == InitStrategy /\ [][ApplySafeDecide]_vars

-----------------------------------------------------------------------------
(* _validate_and_clip applied to any plan *)

ClipLimits == {1, MaxPlanLen, MaxPathDefault}

\* plans of up to MaxPlanLen + 1 steps
LongPlans(pos) ==
    (AnyPlans(Bomber(0, pos, TRUE, TRUE, 0)) \ {None})
    \cup UNION {UNION {UNION {{Some(UnitPlan(<<a, b, c>>, bs, "")) :
                                  bs \in {<< >>, <<a>>, <<c>>}} :
                              c \in Range(neighbors4(b))} :
                       b \in Range(neighbors4(a))} :
                a \in Range(neighbors4(pos))}

InitValidate ==
    /\ \E a \in SmallArenas :
          /\ walls = a.walls
          /\ obstacles = a.obstacles
          /\ bombs = a.bombs
          /\ \E pos \in SmallCells \ (a.walls \cup a.obstacles \cup
                                       {a.bombs[i].pos : i \in DOMAIN a.bombs}),
                n \in 0 .. MaxAvail : bombers = <<Bomber(1, pos, TRUE, TRUE, n)>>
    /\ map_size = <<SmallW, SmallH>>
    /\ mobs = << >>
    /\ assign = << >>
    /\ instances = << >>
    /\ pc = "pure"
    /\ k = 0
    /\ occupied_now = {}
    /\ reserved_next = {}
    /\ reserved_blast = {}
    /\ cmds = << >>
    /\ call = NoCall
    /\ RunnerOff
    /\ NoTrace

\* the reservations of decide when its first unit is decided
FirstUnitState ==
    [occupied_now |-> {decide_units(bombers)[i].pos : i \in DOMAIN decide_units(bombers)},
     reserved_next |-> {}, reserved_blast |-> {}, cmds |-> << >>]

ApplyValidateAndClip ==
    /\ call.op = "none"
    /\ pc = "pure"
    /\ \E plan \in LongPlans(bombers[1].pos), max_path \in ClipLimits :
          call' = [op |-> "validate_and_clip", unit |-> bombers[1], plan |-> plan.val,
                   max_path |-> max_path,
                   out |-> validate_and_clip(bombers[1], plan.val, Ctx, max_path),
                   cmds |-> resolve(bombers[1], plan, Ctx, max_path, FirstUnitState).cmds]
    /\ UNCHANGED <<RunnerVars, TraceVars, ArenaVars, EngineVars>>

SpecValidate == InitValidate /\ [][ApplyValidateAndClip]_vars

-----------------------------------------------------------------------------
(* _validate_and_clip applied under any passability modifiers of the booster *)

\* BoosterState: the three passability modifiers
BoosterFlags == [can_pass_walls : BOOLEAN, can_pass_obstacles : BOOLEAN,
                 can_pass_bombs : BOOLEAN]

\* evade_mobs._blocked_cells: the cells the active modifiers leave blocked
blocked_cells(ctx) ==
    (IF ctx.booster.can_pass_walls THEN {} ELSE ctx.walls)
    \cup (IF ctx.booster.can_pass_obstacles THEN {} ELSE ctx.obstacles)
    \cup (IF ctx.booster.can_pass_bombs THEN {} ELSE bomb_keys(ctx.bombs))

InitPassable ==
    /\ \E a \in SmallArenas :
          /\ walls = a.walls
          /\ obstacles = a.obstacles
          /\ bombs = a.bombs
          /\ \E pos \in SmallCells \ (a.walls \cup a.obstacles \cup
                                       {a.bombs[i].pos : i \in DOMAIN a.bombs}) :
                bombers = <<Bomber(1, pos, TRUE, TRUE, 1)>>
    /\ map_size = <<SmallW, SmallH>>
    /\ mobs = << >>
    /\ assign = << >>
    /\ instances = << >>
    /\ pc = "pure"
    /\ k = 0
    /\ occupied_now = {}
    /\ reserved_next = {}
    /\ reserved_blast = {}
    /\ cmds = << >>
    /\ call = NoCall
    /\ RunnerOff
    /\ NoTrace

\* _validate_and_clip called with a context that carries the booster
ApplyValidateWithBooster ==
    /\ call.op = "none"
    /\ pc = "pure"
    /\ \E plan \in AnyPlans(bombers[1]) \ {None}, b \in BoosterFlags :
          call' = [op |-> "validate_with_booster", unit |-> bombers[1], plan |-> plan.val,
                   booster |-> b, max_path |-> MaxPathDefault,
                   out |-> validate_and_clip(bombers[1], plan.val,
                                             [booster |-> b] @@ Ctx, MaxPathDefault)]
    /\ UNCHANGED <<RunnerVars, TraceVars, ArenaVars, EngineVars>>

SpecPassable == InitPassable /\ [][ApplyValidateWithBooster]_vars

-----------------------------------------------------------------------------
(* The loop body of decide applied to any plan and any reservations *)

\* the reservations earlier units may have left: nothing, or one cell that
\* is reserved, stood on by another unit, or inside a reserved blast
LoopStates(pos) ==
    LET base == [occupied_now |-> {pos}, reserved_next |-> {}, reserved_blast |-> {},
                 cmds |-> << >>]
        free == SmallCells \ (walls \cup obstacles \cup bomb_keys(bombs_dict(bombs)) \cup {pos})
    IN  {base}
        \cup {[base EXCEPT !.reserved_next = {c}, !.occupied_now = {pos, c}] : c \in free}
        \cup {[base EXCEPT !.occupied_now = {pos, c}] : c \in free}
        \cup {[base EXCEPT !.reserved_blast = {c}] : c \in free}

ApplyResolve ==
    /\ call.op = "none"
    /\ pc = "pure"
    /\ \E plan \in AnyPlans(bombers[1]), st \in LoopStates(bombers[1].pos) :
          call' = [op |-> "resolve", unit |-> bombers[1], plan |-> plan, st |-> st,
                   valid |-> IF plan.ok
                             THEN validate_and_clip(bombers[1], plan.val, Ctx, MaxPathDefault)
                             ELSE None,
                   out |-> resolve(bombers[1], plan, Ctx, MaxPathDefault, st)]
    /\ UNCHANGED <<RunnerVars, TraceVars, ArenaVars, EngineVars>>

SpecResolve == InitPassable /\ [][ApplyResolve]_vars

-----------------------------------------------------------------------------
(* can_hit_target_in_cross applied to any bomb cell, target and range *)

\* targets on the map and one cell beyond each edge, where a ray may end
HitTargets == (-1 .. W) \X (-1 .. H)

ApplyCanHit ==
    /\ call.op = "none"
    /\ \E bomb_pos \in Cells, target_pos \in HitTargets, r \in 0 .. MaxRange :
          call' = [op |-> "can_hit", bomb_pos |-> bomb_pos, target_pos |-> target_pos,
                   bomb_range |-> r,
                   out |-> can_hit_target_in_cross(bomb_pos, target_pos, r, walls,
                                                   obstacles, bomb_keys(bombs)),
                   cross |-> blast_cross(bomb_pos, r, walls, obstacles, bomb_keys(bombs))]
    /\ UNCHANGED <<RunnerVars, TraceVars, ArenaVars, EngineVars>>

SpecHit == InitBlast /\ [][ApplyCanHit]_vars

-----------------------------------------------------------------------------
(* bfs_path applied to any start, goal, blocked set and length limit *)

MaxBlocked == 2

\* max_len as the callers pass it (30), and limits short enough to cut a path
NavLimits == {0, 1, 2, MaxPathDefault}

InitNav ==
    /\ walls = {}
    /\ obstacles \in SubsetsUpTo(Cells, MaxBlocked)
    /\ bombs = << >>
    /\ map_size = <<W, H>>
    /\ EngineIdle
    /\ RunnerOff
    /\ NoTrace
    /\ \E start \in Cells, goal \in Cells, max_len \in NavLimits :
          call = [op |-> "args",
                  a |-> [start |-> start, goal |-> goal, w |-> W, h |-> H,
                         blocked |-> obstacles, max_len |-> max_len]]

ApplyBfsPath ==
    /\ call.op = "args"
    /\ call' = [op |-> "bfs_path", a |-> call.a,
                out |-> bfs_path(call.a.start, call.a.goal, call.a.w, call.a.h,
                                 call.a.blocked, call.a.max_len)]
    /\ UNCHANGED <<RunnerVars, TraceVars, ArenaVars, EngineVars>>

SpecNav == InitNav /\ [][ApplyBfsPath]_vars

-----------------------------------------------------------------------------
(* FarmObstaclesStrategy.decide_for_unit applied to a unit on small maps and
   in a corridor longer than the path limit *)

CorridorW == 31

CorridorCells == (0 .. CorridorW - 1) \X {0}

\* the unit starts at the near end of the corridor
CorridorStarts == {<<0, 0>>, <<1, 0>>}

\* maps of W x H cells with up to one wall, MaxBlocked obstacles and one bomb,
\* armed or not, and corridors of CorridorW x 1 cells with one or two obstacles
FarmArenas ==
    {[size |-> <<W, H>>, walls |-> ws, obstacles |-> obs, bombs |-> bs] :
        ws \in SubsetsUpTo(Cells, 1), obs \in SubsetsUpTo(Cells, MaxBlocked),
        bs \in BombLists(Cells, 1, {1}, {DangerTimer, DangerTimer + 5})}
    \cup {[size |-> <<CorridorW, 1>>, walls |-> {}, obstacles |-> {a, b}, bombs |-> << >>] :
            a \in CorridorCells, b \in CorridorCells}

InitFarm ==
    /\ \E a \in FarmArenas :
          /\ a.walls \cap a.obstacles = {}
          /\ \A i \in DOMAIN a.bombs : a.bombs[i].pos \notin a.walls \cup a.obstacles
          /\ walls = a.walls
          /\ obstacles = a.obstacles
          /\ bombs = a.bombs
          /\ map_size = a.size
          /\ \E pos \in ((0 .. a.size[1] - 1) \X (0 .. a.size[2] - 1))
                          \ (a.walls \cup a.obstacles),
                avail \in 0 .. 1 :
                /\ a.size[1] = CorridorW => pos \in CorridorStarts
                /\ bombers = <<Bomber(1, pos, TRUE, TRUE, avail)>>
    /\ mobs = << >>
    /\ assign = << >>
    /\ instances = << >>
    /\ pc = "pure"
    /\ k = 0
    /\ occupied_now = {}
    /\ reserved_next = {}
    /\ reserved_blast = {}
    /\ cmds = << >>
    /\ call = NoCall
    /\ RunnerOff
    /\ NoTrace

\* the context decide builds, with ctx.danger from build_danger
FarmCtx == [danger |-> build_danger(bombs_dict(bombs), DangerTimer, walls, obstacles)] @@ Ctx

ApplyFarm ==
    /\ call.op = "none"
    /\ pc = "pure"
    /\ \E plan \in farm_decide(bombers[1], FarmCtx) :
          call' = [op |-> "farm", unit |-> bombers[1], danger |-> FarmCtx.danger,
                   out |-> plan]
    /\ UNCHANGED <<RunnerVars, TraceVars, ArenaVars, EngineVars>>

SpecFarm == InitFarm /\ [][ApplyFarm]_vars

-----------------------------------------------------------------------------
(* decide_for_unit called for two units in turn on one shared context; the
   sets of the context are objects a strategy could update in place *)

\* line 66 bound to the set of the context instead of a new one
blocked_move_aliased == "ctx.walls"

\* SafeBombStrategy.py:66: blocked_move = set(blocked_static) | mob_kill_zone
\* is a set created by the call
blocked_move_object == "local"

\* the set updates in place that decide_for_unit makes, by the object they
\* hit: SafeBombStrategy.py:68 (blocked_move |= ally_cells) and 353-357
\* (zone.add, zone = set()); the search queues and seen sets are local as
\* well; farm_obstacles.py updates nothing in place
in_place_updates(strategy_id, unit, ctx) ==
    IF strategy_id = "safe_bomb"
    THEN {[object |-> blocked_move_object,
           cells |-> {b.pos : b \in Range(allies_of(ctx.bombers, unit.id))}],
          [object |-> "local",
           cells |-> mob_kill_zone(ctx.mobs, ctx.w, ctx.h, MobAvoidDist)]}
    ELSE {}

\* a set of the context after the updates that hit it
updated(object, cells, ups) ==
    cells \cup UNION {u.cells : u \in {v \in ups : v.object = object}}

FrameStrategies == {"safe_bomb", "farm_obstacles"}

\* no bomb, one bomb or one awake mob on a free cell
FrameScenes(free) ==
    {[bombs |-> bs, mobs |-> << >>] : bs \in BombLists(free, 1, {1}, {20})}
    \cup {[bombs |-> << >>, mobs |-> <<[pos |-> c, safe_time |-> 0]>>] : c \in free}

InitFrame ==
    /\ walls = {}
    /\ obstacles \in SubsetsUpTo(Cells, MaxStatic)
    /\ \E sc \in FrameScenes(Cells \ obstacles) :
          /\ bombs = sc.bombs
          /\ mobs = sc.mobs
          /\ \E bs \in TwoBombers(Cells \ (walls \cup obstacles
                                             \cup {sc.bombs[i].pos : i \in DOMAIN sc.bombs}),
                                  {1}, {1}) :
                /\ bs[1].id = 1
                /\ bs[2].alive /\ bs[2].can_move
                /\ bombers = bs
    /\ map_size = <<W, H>>
    /\ assign \in [{1, 2} -> FrameStrategies]
    /\ instances = [key \in {<<i, assign[i]>> : i \in {1, 2}} |-> create(key[2])]
    /\ pc = "pure"
    /\ k = 0
    /\ occupied_now = {}
    /\ reserved_next = {}
    /\ reserved_blast = {}
    /\ cmds = << >>
    /\ call = [op |-> "none", ctx |-> FarmCtx]
    /\ RunnerOff
    /\ NoTrace

\* _decide_one, line 128, for the next bomber of the snapshot: the call
\* of strat.decide_for_unit(unit, ctx) with everything it changes
StrategyCall ==
    /\ pc = "pure"
    /\ k < Len(bombers)
    /\ LET unit == bombers[k + 1]
           key == <<unit.id, assign[unit.id]>>
           ups == in_place_updates(key[2], unit, FarmCtx)
           outs == IF key[2] = "safe_bomb"
                   THEN {safe_decide(unit, FarmCtx, instances[key])}
                   ELSE {[plan |-> p, inst |-> instances[key]] :
                            p \in farm_decide(unit, FarmCtx)}
       IN  \E out \in outs :
              /\ instances' = [instances EXCEPT ![key] = out.inst]
              /\ walls' = updated("ctx.walls", walls, ups)
              /\ obstacles' = updated("ctx.obstacles", obstacles, ups)
              /\ call' = [op |-> "strategy_call", key |-> key, plan |-> out.plan,
                          ctx |-> call.ctx, saw |-> FarmCtx]
    /\ k' = k + 1
    /\ UNCHANGED <<RunnerVars, TraceVars, bombs, map_size, bombers, mobs, assign, pc,
                   occupied_now, reserved_next, reserved_blast, cmds>>

SpecFrame == InitFrame /\ [][StrategyCall]_vars

-----------------------------------------------------------------------------
(* One unit run by SafeBombStrategy in a closed loop: every tick the pass
   decides on the snapshot, the command is executed, a second goes by *)

MaxLoopTicks == 12
MaxLoopObstacles == 2

\* one tick of the game, in tenths of a second: the step of time of
\* _time_bfs_first (nt = t + 1)
TickLen == 10

\* the bombs a second older
aged(bs) == [i \in DOMAIN bs |-> [bs[i] EXCEPT !.timer = @ - TickLen]]

\* the bombs of a list that go off now, and those that stay
Detonating(bs) == {i \in DOMAIN bs : bs[i].timer <= 0}
RECURSIVE Remaining(_)
Remaining(bs) ==
    IF bs = << >> THEN << >>
    ELSE IF Head(bs).timer <= 0 THEN Remaining(Tail(bs))
         ELSE <<Head(bs)>> \o Remaining(Tail(bs))

\* the timers of the bombs that lie in the arena when the loop starts
LoopTimers == {10, 20, 30}

\* no bomb, or one bomb of another player on a free cell
LoopBombs(free) ==
    {<< >>} \cup {<<[pos |-> c, range |-> 1, timer |-> t, own |-> FALSE]>> :
                     c \in free, t \in LoopTimers}

\* the cells the bombs of a list hit when they go off
LoopBlast(bs, ws, obs) ==
    UNION {danger_from_bomb(bs[i].pos, bs[i].range, ws, obs,
                            {bs[j].pos : j \in DOMAIN bs}, W, H) : i \in DOMAIN bs}

\* the unit starts on a free cell that no bomb of the arena hits
InitLoop ==
    /\ walls = {}
    /\ obstacles \in SubsetsUpTo(Cells, MaxLoopObstacles)
    /\ bombs \in LoopBombs(Cells \ obstacles)
    /\ mobs = << >>
    /\ \E p \in Cells \ (obstacles \cup LoopBlast(bombs, walls, obstacles)) :
          bombers = <<Bomber(1, p, TRUE, TRUE, 1)>>
    /\ map_size = <<W, H>>
    /\ assign = [i \in {1} |-> "safe_bomb"]
    /\ instances = [key \in {<<1, "safe_bomb">>} |-> create("safe_bomb")]
    /\ pc = "pure"
    /\ k = 0
    /\ occupied_now = {}
    /\ reserved_next = {}
    /\ reserved_blast = {}
    /\ cmds = << >>
    /\ call = [op |-> "none"]
    /\ RunnerOff
    /\ NoTrace

\* a tick: decide on the snapshot, the unit takes the step of its command
\* and lays the bomb of its command, every bomb that was there is a second
\* older, the bombs at zero go off
LoopTick ==
    /\ pc = "pure"
    /\ passes < MaxLoopTicks
    /\ LET unit == bombers[1]
           key == <<unit.id, get_for(unit.id)>>
       IN  \E r \in {safe_decide(unit, Ctx, instances[key])} :
           \E st \in {resolve(unit, r.plan, Ctx, MaxPathDefault,
                              [occupied_now |-> {unit.pos}, reserved_next |-> {},
                               reserved_blast |-> {}, cmds |-> << >>])} :
           \E pos \in {IF st.cmds # << >> THEN st.cmds[1].path[1] ELSE unit.pos} :
           \E laid \in {IF st.cmds # << >> /\ st.cmds[1].bombs # << >>
                        THEN <<[pos |-> pos, range |-> MyBombRange, timer |-> MyBombTimer,
                                own |-> TRUE]>>
                        ELSE << >>} :
           \E old \in {aged(bombs)} :
              LET all == old \o laid
                  blast_of(i) == danger_from_bomb(old[i].pos, old[i].range, walls, obstacles,
                                                  {all[j].pos : j \in DOMAIN all}, W, H)
                  blast == UNION {blast_of(i) : i \in Detonating(old)}
                  mine == {i \in Detonating(old) : old[i].own}
              IN  /\ instances' = [instances EXCEPT ![key] = r.inst]
                  /\ cmds' = st.cmds
                  /\ bombs' = Remaining(old) \o laid
                  /\ bombers' = <<[unit EXCEPT !.pos = pos,
                                               !.bombs_available = @ - Len(laid)
                                                                   + Cardinality(mine)]>>
                  /\ call' = [op |-> "tick", from |-> unit.pos, plan |-> r.plan,
                              detonated |-> Detonating(old) # {}, blast |-> blast,
                              hit |-> pos \in blast,
                              hit_own |-> \E i \in mine : pos \in blast_of(i)]
    /\ passes' = passes + 1
    /\ UNCHANGED <<RunnerVars, walls, obstacles, map_size, mobs, assign, pc, k,
                   occupied_now, reserved_next, reserved_blast, created, called>>

SpecLoop == InitLoop /\ [][LoopTick]_vars

-----------------------------------------------------------------------------
(* Properties of the decision pass *)

UnitOf(id) == bombers[CHOOSE i \in DOMAIN bombers : bombers[i].id = id]

Blocked == walls \cup obstacles \cup {bombs[i].pos : i \in DOMAIN bombs}

\* the earliest explosion reaching each cell, as SafeBombStrategy computes it
MinExplosion ==
    min_explosion_map(bombs_dict(bombs), Len(bombs_dict(bombs)), walls, obstacles,
                      map_size[1], map_size[2])

\* C1: the destination of every command emitted for a unit run by
\* SafeBombStrategy is a cell no bomb reaches, or one whose earliest
\* explosion lies more than 2 s + safe_margin ahead, whichever branch of the
\* strategy produced the step.
C1_SafeDestinations ==
    \A i \in DOMAIN cmds :
        get_for(cmds[i].bomber_id) = "safe_bomb" =>
            safe_to_stay(cmds[i].path[1], 20, MinExplosion)

\* C2: no two commands emitted for distinct units name the same destination
\* cell, whatever the snapshot and whatever the strategies proposed.
C2_DistinctDestinations ==
    \A i, j \in DOMAIN cmds :
        cmds[i].bomber_id # cmds[j].bomber_id => cmds[i].path[1] # cmds[j].path[1]

\* two units were commanded, and the cell given to the first is one step
\* away from the second, which could have asked for it too
C2_Witness ==
    /\ pc = "done"
    /\ Len(cmds) = 2
    /\ manhattan(cmds[1].path[1], UnitOf(cmds[2].bomber_id).pos) = 1

\* C3: a path that passed _validate_and_clip has at most max_path steps, its
\* first step is 4-adjacent to the unit, every later step is 4-adjacent to
\* its predecessor, and no step is a wall, an obstacle or a bomb cell.
C3_ValidatedPath ==
    (call.op = "validate_and_clip" /\ call.out.ok) =>
        LET path == call.out.val.path
        IN  /\ Len(path) <= call.max_path
            /\ manhattan(path[1], call.unit.pos) = 1
            /\ \A i \in 2 .. Len(path) : manhattan(path[i], path[i - 1]) = 1
            /\ \A i \in DOMAIN path : path[i] \notin Blocked

\* a plan of MaxPlanLen + 1 steps through free cells was clipped to
\* max_path = MaxPlanLen steps
C3_Witness ==
    /\ call.op = "validate_and_clip"
    /\ call.out.ok
    /\ Len(call.plan.path) = MaxPlanLen + 1
    /\ call.max_path = MaxPlanLen
    /\ Len(call.out.val.path) = MaxPlanLen

\* C4: the destination of every emitted command is 4-adjacent to the
\* current position of its unit, also when the first step of the validated
\* path is not available.
C4_DestinationAdjacent ==
    \A i \in DOMAIN cmds :
        manhattan(cmds[i].path[1], UnitOf(cmds[i].bomber_id).pos) = 1

\* C5: in every emitted command the bombs are cells of the path, are no
\* more than the unit's bombs_available, and no cell is listed twice.
C5_BombsWellFormed ==
    \A i \in DOMAIN cmds :
        LET bs == cmds[i].bombs
        IN  /\ Range(bs) \subseteq Range(cmds[i].path)
            /\ Len(bs) <= UnitOf(cmds[i].bomber_id).bombs_available
            /\ \A a, b \in DOMAIN bs : a # b => bs[a] # bs[b]

\* the parts of C5 the engine does keep: bombs on the path, within the budget
C5_BombsOnPathWithinBudget ==
    \A i \in DOMAIN cmds :
        /\ Range(cmds[i].bombs) \subseteq Range(cmds[i].path)
        /\ Len(cmds[i].bombs) <= UnitOf(cmds[i].bomber_id).bombs_available

-----------------------------------------------------------------------------
(* Properties of the blast / danger model *)

Blocking == walls \cup obstacles \cup {bombs[i].pos : i \in DOMAIN bombs}

RayCell(pos, i, n) == <<pos[1] + Dirs[i][1] * n, pos[2] + Dirs[i][2] * n>>

\* distances, within range r, at which the ray i from pos meets a blocking cell
Hits(pos, i, r) == {n \in 1 .. r : RayCell(pos, i, n) \in Blocking}

\* how far the ray i from pos reaches
Reach(pos, i, r) == IF Hits(pos, i, r) = {} THEN r ELSE Min(Hits(pos, i, r))

Footprint(pos, r) ==
    {pos} \cup UNION {{RayCell(pos, i, n) : n \in 1 .. Reach(pos, i, r)} : i \in 1 .. 4}

\* C8: blast_cross returns exactly the origin plus, along each of the four
\* rays, the cells at distance 1..k, k being the distance of the first wall,
\* obstacle or stopper within range (that cell included), else the range.
C8_BlastCrossExact ==
    call.op = "blast_cross" => call.out = Footprint(call.pos, call.bomb_range)

\* a ray that is cut short: the blocking cell is kept, the next one is not
C8_Witness ==
    /\ call.op = "blast_cross"
    /\ \E i \in 1 .. 4 :
          /\ Hits(call.pos, i, call.bomb_range) # {}
          /\ Reach(call.pos, i, call.bomb_range) < call.bomb_range
          /\ RayCell(call.pos, i, Reach(call.pos, i, call.bomb_range)) \in call.out
          /\ RayCell(call.pos, i, Reach(call.pos, i, call.bomb_range) + 1) \notin call.out

Armed(thr) == {i \in DOMAIN bombs : bombs[i].timer <= thr}

\* C10: build_danger returns exactly the union of the footprints of the bombs
\* whose timer is <= timer_threshold, every bomb position (armed or not)
\* stopping the rays.
C10_BuildDangerExact ==
    call.op = "build_danger" =>
        call.out = UNION {Footprint(bombs[i].pos, bombs[i].range) :
                             i \in Armed(call.timer_threshold)}

\* an unarmed bomb stands in the ray of an armed one: its cell is hit, the cell
\* behind it is not, and a cell of the unarmed bomb's own footprint stays out
C10_Witness ==
    /\ call.op = "build_danger"
    /\ \E a \in Armed(call.timer_threshold),
          u \in (DOMAIN bombs) \ Armed(call.timer_threshold), i \in 1 .. 4 :
          /\ Hits(bombs[a].pos, i, bombs[a].range) # {}
          /\ Reach(bombs[a].pos, i, bombs[a].range) < bombs[a].range
          /\ RayCell(bombs[a].pos, i, Reach(bombs[a].pos, i, bombs[a].range)) = bombs[u].pos
          /\ bombs[u].pos \in call.out
          /\ RayCell(bombs[a].pos, i, Reach(bombs[a].pos, i, bombs[a].range) + 1)
                \in Cells \ call.out
          /\ Footprint(bombs[u].pos, bombs[u].range) \ call.out # {}

Covering(cell) ==
    {i \in DOMAIN bombs :
        cell \in danger_from_bomb(bombs[i].pos, bombs[i].range, walls, obstacles,
                                  {bombs[j].pos : j \in DOMAIN bombs}, W, H)}

\* C9: the map of _min_explosion_map has exactly the cells covered by the
\* footprint of some bomb, each with the least timer among the covering bombs.
C9_MinExplosionMinimal ==
    call.op = "min_explosion_map" =>
        /\ DOMAIN call.out = {c \in Cells : Covering(c) # {}}
        /\ \A c \in DOMAIN call.out :
              call.out[c] = Min({bombs[i].timer : i \in Covering(c)})

\* a cell covered by two bombs, the later of the list with the larger timer
C9_Witness ==
    /\ call.op = "min_explosion_map"
    /\ \E c \in Cells : \E i, j \in Covering(c) :
          /\ i < j
          /\ bombs[i].timer < bombs[j].timer
          /\ call.out[c] = bombs[i].timer
    /\ \E c \in Cells : c \notin DOMAIN call.out

-----------------------------------------------------------------------------
(* _time_bfs_first applied to any start, blocked set, explosion map and goal *)

MaxTime == 4
MaxDanger == 1

SearchTimers == {25, 35, 45}

ExplosionMaps == UNION {[D -> SearchTimers] : D \in SubsetsUpTo(Cells, MaxDanger)}

SearchGoals(start, blocked) ==
    [kind : {"cell"}, target : Cells, min_t : {0, 3}]
    \cup {[kind |-> "escape",
           blast |-> danger_from_bomb(start, MyBombRange, {}, blocked, {start}, W, H),
           leave_time |-> ExplodeAt + 5]}

InitSearch ==
    /\ walls = {}
    /\ obstacles \in SubsetsUpTo(Cells, MaxStatic)
    /\ bombs = << >>
    /\ map_size = <<W, H>>
    /\ EngineIdle
    /\ RunnerOff
    /\ NoTrace
    /\ \E start \in Cells, start_time \in {0, 1}, me \in ExplosionMaps,
          max_time \in {2, MaxTime} :
          \E g \in SearchGoals(start, obstacles) :
             call = [op |-> "args",
                     a |-> [start |-> start, start_time |-> start_time,
                            blocked |-> obstacles,
                            min_explosion |->
                                IF g.kind = "cell" THEN me
                                ELSE with_new_bomb(me, g.blast, ExplodeAt),
                            w |-> W, h |-> H, max_time |-> max_time, goal |-> g]]

ApplyTimeBfs ==
    /\ call.op = "args"
    /\ call' = [op |-> "time_bfs_first", a |-> call.a, out |-> time_bfs_first(call.a)]
    /\ UNCHANGED <<RunnerVars, TraceVars, ArenaVars, EngineVars>>

SpecSearch == InitSearch /\ [][ApplyTimeBfs]_vars

-----------------------------------------------------------------------------
(* _time_bfs_first run one iteration of its while-loop at a time *)

\* explosion maps over the middle cell of the grid
StepMaps == UNION {[D -> SearchTimers] : D \in SUBSET {<<1, 1>>}}

\* the escape goal, and cell goals that are met late or never, so that the
\* search runs to its horizon
StepGoals(start, blocked) ==
    [kind : {"cell"}, target : {<<0, 0>>, <<W - 1, H - 1>>}, min_t : {0, MaxTime + 2}]
    \cup {[kind |-> "escape",
           blast |-> danger_from_bomb(start, MyBombRange, {}, blocked, {start}, W, H),
           leave_time |-> ExplodeAt + 5]}

\* lines 405-407: q, prev and seen before the loop; log lists every state
\* put into q so far
InitSearchSteps ==
    /\ walls = {}
    /\ obstacles \in SubsetsUpTo(Cells, MaxStatic)
    /\ bombs = << >>
    /\ map_size = <<W, H>>
    /\ EngineIdle
    /\ RunnerOff
    /\ NoTrace
    /\ \E start \in Cells, start_time \in {0, 1}, me \in StepMaps,
          max_time \in {2, MaxTime} :
          \E g \in StepGoals(start, obstacles) :
             call = [op |-> "search",
                     a |-> [start |-> start, start_time |-> start_time,
                            blocked |-> obstacles,
                            min_explosion |->
                                IF g.kind = "cell" THEN me
                                ELSE with_new_bomb(me, g.blast, ExplodeAt),
                            w |-> W, h |-> H, max_time |-> max_time, goal |-> g],
                     st |-> [q |-> << <<start, start_time>> >>,
                             seen |-> {<<start, start_time>>},
                             prev |-> << >>],
                     log |-> << <<start, start_time>> >>]

\* lines 412-435: one pass through the body of `while q`, or the return
\* after it
SearchStep ==
    /\ call.op = "search"
    /\ LET a == call.a
           st == call.st
           cur == Head(st.q)[1]
           t == Head(st.q)[2]
           popped == [st EXCEPT !.q = Tail(st.q)]
           expanded == bfs_expand(a, cur, t, 1, popped)
       IN  call' =
             IF st.q = << >>
             THEN [op |-> "searched", a |-> a, out |-> None, log |-> call.log]
             ELSE IF t > a.start_time + a.max_time
             THEN [call EXCEPT !.st = popped]
             ELSE IF bfs_accept(a, cur, t)
             THEN [op |-> "searched", a |-> a, log |-> call.log,
                   out |-> Some(reconstruct(st.prev, <<cur, t>>, a.start, a.start_time))]
             ELSE [call EXCEPT !.st = expanded,
                               !.log = @ \o SubSeq(expanded.q, Len(popped.q) + 1,
                                                   Len(expanded.q))]
    /\ UNCHANGED <<RunnerVars, TraceVars, ArenaVars, EngineVars>>

\* the thread running the search keeps running
SpecSearchSteps == InitSearchSteps /\ [][SearchStep]_vars /\ WF_vars(SearchStep)

-----------------------------------------------------------------------------
(* Properties of the time-aware search *)

\* the cell p can be survived when reached at time t: no explosion is
\* scheduled there, or only later than t + 1 plus the margin
Survivable(a, p, t) ==
    p \notin DOMAIN a.min_explosion \/ a.min_explosion[p] > (t + 1) * 10 + SafeMargin

\* C6: every cell of a path returned by _time_bfs_first, reached at time
\* start_time + i, is absent from min_explosion or explodes later than
\* (start_time + i) + 1 + safe_margin.
C6_EscapeSafety ==
    (call.op = "time_bfs_first" /\ call.out.ok) =>
        \A i \in 1 .. Len(call.out.val) :
            Survivable(call.a, call.out.val[i], call.a.start_time + i)

\* a returned path of two or more steps that crosses a cell with a scheduled
\* explosion
C6_Witness ==
    /\ call.op = "time_bfs_first"
    /\ call.out.ok
    /\ Len(call.out.val) >= 2
    /\ \E i \in 1 .. Len(call.out.val) : call.out.val[i] \in DOMAIN call.a.min_explosion

\* cells one legal move away from a cell of from, arriving at time t
MoveFrom(a, from, t) ==
    UNION {{n \in Cells :
               /\ manhattan(c, n) = 1
               /\ inside(n, a.w, a.h)
               /\ n \notin a.blocked
               /\ Survivable(a, n, t)} : c \in from}

\* the least number of moves j..max_time after which a legal walk, now on one
\* of the cells of at after j - 1 moves, ends in a goal state; 0 if there is none
RECURSIVE FirstGoalStep(_, _, _)
FirstGoalStep(a, j, at) ==
    IF j > a.max_time \/ at = {} THEN 0
    ELSE LET next == MoveFrom(a, at, a.start_time + j)
         IN  IF \E p \in next : goal_pred(a.goal, p, a.start_time + j, a.min_explosion)
             THEN j
             ELSE FirstGoalStep(a, j + 1, next)

ShortestGoal(a) == FirstGoalStep(a, 1, {a.start})

LegalWalk(a, path) ==
    \A i \in 1 .. Len(path) :
        /\ inside(path[i], a.w, a.h)
        /\ path[i] \notin a.blocked
        /\ Survivable(a, path[i], a.start_time + i)
        /\ manhattan(IF i = 1 THEN a.start ELSE path[i - 1], path[i]) = 1

\* C7: _time_bfs_first returns a path exactly when some walk of 1..max_time
\* legal moves ends in a goal state; the path is such a walk, of the least
\* number of moves, and never empty; otherwise the result is None.
C7_SearchComplete ==
    call.op = "time_bfs_first" =>
        /\ call.out.ok <=> ShortestGoal(call.a) # 0
        /\ call.out.ok =>
              /\ Len(call.out.val) >= 1
              /\ Len(call.out.val) = ShortestGoal(call.a)
              /\ LegalWalk(call.a, call.out.val)
              /\ goal_pred(call.a.goal, call.out.val[Len(call.out.val)],
                           call.a.start_time + Len(call.out.val), call.a.min_explosion)

\* the start already satisfies the goal predicate and a walk away and back is
\* returned instead of the empty path
C7_Witness ==
    /\ call.op = "time_bfs_first"
    /\ call.out.ok
    /\ goal_pred(call.a.goal, call.a.start, call.a.start_time, call.a.min_explosion)
    /\ Len(call.out.val) >= 2

-----------------------------------------------------------------------------
(* Properties of the reservations of one pass *)

\* the cells of the map in the footprint of a bomb of range r at c
MapFootprint(c, r) ==
    {p \in Footprint(c, r) : p = c \/ inside(p, map_size[1], map_size[2])}

\* C11: once a command of the pass drops a bomb at cell c, no command
\* appended later in the same pass has its destination inside the footprint,
\* on the map, of a bomb at c with the engine's my_bomb_range, the rays being
\* stopped by walls, obstacles and the bombs of the snapshot.
C11_ReservedBlastAvoided ==
    \A i, j \in DOMAIN cmds :
        (i < j /\ cmds[i].bombs # << >>) =>
            cmds[j].path[1] \notin MapFootprint(cmds[i].path[1], EngineBombRange)

\* the first unit drops a bomb, and the second, standing one step from a
\* cell of its footprint other than the bomb cell, is commanded too
C11_Witness ==
    /\ Len(cmds) = 2
    /\ cmds[1].bombs # << >>
    /\ inside(cmds[1].path[1], map_size[1], map_size[2])
    /\ \E p \in MapFootprint(cmds[1].path[1], EngineBombRange) \ {cmds[1].path[1]} :
          /\ manhattan(p, UnitOf(cmds[2].bomber_id).pos) = 1
          /\ p \notin Blocking

-----------------------------------------------------------------------------
(* Properties of SafeBombStrategy.decide_for_unit *)

\* the call returned a plan that drops a bomb
BombPlanned ==
    call.op = "safe_decide" /\ call.plan.ok /\ call.plan.val.bombs # << >>

\* the private state the call left behind
StateAfter == instances[<<call.unit.id, "safe_bomb">>]

\* the explosion times once the planned bomb at c is armed
MinExplosionWith(c) ==
    with_new_bomb(MinExplosion, MapFootprint(c, MyBombRange), ExplodeAt)

\* C12: when decide_for_unit returns a plan with a bomb at c, the escape
\* queue is a non-empty path that starts 4-adjacent to c, never enters c,
\* whose step i (reached at time 1 + i) is on a cell that explodes later than
\* one tick and safe_margin after that, against the bombs of the snapshot and
\* the new bomb, and that ends outside the footprint of the new bomb.
C12_BombPlanHasEscape ==
    BombPlanned =>
        LET c == call.plan.val.bombs[1]
            q == StateAfter.escape_plan
            me == MinExplosionWith(c)
        IN  /\ q # << >>
            /\ manhattan(q[1], c) = 1
            /\ \A i \in 2 .. Len(q) : manhattan(q[i], q[i - 1]) = 1
            /\ \A i \in DOMAIN q :
                  /\ q[i] # c
                  /\ q[i] \in DOMAIN me => me[q[i]] > Tenths(1 + i + 1) + SafeMargin
            /\ q[Len(q)] \notin MapFootprint(c, MyBombRange)

\* a bomb plan was returned with an escape of two steps or more
C12_Witness ==
    BombPlanned /\ Len(StateAfter.escape_plan) >= 2

\* cells at distance mob_avoid_dist or less of a mob
KillZone ==
    {mobs[i].pos : i \in DOMAIN mobs}
    \cup {p \in (0 .. map_size[1] - 1) \X (0 .. map_size[2] - 1) :
             \E i \in DOMAIN mobs : manhattan(p, mobs[i].pos) <= MobAvoidDist}

\* cells of the living bombers other than the one with this id
AllyCells(id) ==
    {bombers[i].pos : i \in {j \in DOMAIN bombers : bombers[j].alive /\ bombers[j].id # id}}

\* the head of the queue the strategy held when called is in bounds,
\* unblocked, 4-adjacent to the unit and safe for two seconds
HeadValid ==
    LET head == call.inst.escape_plan[1]
    IN  /\ inside(head, map_size[1], map_size[2])
        /\ head \notin Blocking \cup KillZone \cup AllyCells(call.unit.id)
        /\ manhattan(call.unit.pos, head) = 1
        /\ head \in DOMAIN MinExplosion => MinExplosion[head] > 20 + SafeMargin

\* C13: if the escape queue is non-empty when decide_for_unit is called and
\* its head is in bounds, unblocked, 4-adjacent to the unit and safe, the
\* plan returned is exactly that head as a one-step path without bombs, and
\* the queue left behind is the old queue without its head.
C13_QueueFollowed ==
    (call.op = "safe_decide" /\ call.inst.escape_plan # << >> /\ HeadValid) =>
        /\ call.plan.ok
        /\ call.plan.val.path = <<call.inst.escape_plan[1]>>
        /\ call.plan.val.bombs = << >>
        /\ StateAfter.escape_plan = Tail(call.inst.escape_plan)

\* a queue of two steps was followed: its head returned, its second step kept
C13_Witness ==
    /\ call.op = "safe_decide"
    /\ Len(call.inst.escape_plan) = 2
    /\ HeadValid
    /\ Len(StateAfter.escape_plan) = 1

\* a queue whose head is not valid is dropped: what is left is empty or the
\* escape of a new bomb plan
C13_InvalidHeadDropped ==
    (call.op = "safe_decide" /\ call.inst.escape_plan # << >> /\ ~HeadValid) =>
        (StateAfter.escape_plan = << >> \/ BombPlanned)

\* the unit's cell explodes within 1 s + safe_margin, or a mob is near
InDanger ==
    \/ call.unit.pos \in KillZone
    \/ /\ call.unit.pos \in DOMAIN MinExplosion
       /\ MinExplosion[call.unit.pos] <= 10 + SafeMargin

\* C14: when the unit's cell has an earliest explosion T <= 1.0 s +
\* safe_margin, or lies in the mob kill zone, decide_for_unit returns no plan
\* or a plan without bombs.
C14_NoBombWhenInDanger ==
    (call.op = "safe_decide" /\ InDanger) => ~BombPlanned

\* a unit holding a bomb, on a cell about to explode, was told to step away
C14_Witness ==
    /\ call.op = "safe_decide"
    /\ call.unit.pos \in DOMAIN MinExplosion
    /\ MinExplosion[call.unit.pos] <= 10 + SafeMargin
    /\ call.unit.bombs_available > 0
    /\ call.inst.escape_plan = << >>
    /\ call.plan.ok
    /\ call.plan.val.bombs = << >>

\* C15: the footprint of the bomb of every bomb plan returned by
\* decide_for_unit, obstacle or mob variant, holds the position of no living
\* bomber other than the planning unit.
C15_NoFriendlyFire ==
    BombPlanned =>
        MapFootprint(call.plan.val.bombs[1], MyBombRange) \cap AllyCells(call.unit.id) = {}

\* a bomb was planned while a living ally stood two steps from the bomb cell
C15_Witness ==
    /\ BombPlanned
    /\ \E p \in AllyCells(call.unit.id) : manhattan(p, call.plan.val.bombs[1]) = 2

-----------------------------------------------------------------------------
(* Properties of two passes over one snapshot *)

SecondPassDone(op) == pc = "done" /\ call.op = op

AllBound(strategy_id) == \A i \in DOMAIN bombers : get_for(bombers[i].id) = strategy_id

\* C16: two runs of decide on the same snapshot, from the same assignments
\* and the same strategy-instance states, return the same list of commands
C16_SameCommands == SecondPassDone("again") => cmds = call.cmds

\* the part of C16 that holds: when every bomber is run by SafeBombStrategy
\* the second run returns the commands of the first
C16_SameCommandsSafeBomb ==
    (SecondPassDone("again") /\ AllBound("safe_bomb")) => cmds = call.cmds

C16_SafeBombWitness ==
    /\ SecondPassDone("again")
    /\ AllBound("safe_bomb")
    /\ Len(cmds) = 2
    /\ \E i \in DOMAIN cmds : cmds[i].bombs # << >>

IdsAscending(cs) == \A i, j \in DOMAIN cs : i < j => cs[i].bomber_id < cs[j].bomber_id

\* C17: the commands are listed by ascending unit id, and a pass over the
\* snapshot with its bombers listed in another order returns the same commands
C17_OrderIndependent ==
    /\ pc = "done" => IdsAscending(cmds)
    /\ (SecondPassDone("permuted") /\ AllBound("safe_bomb")) => cmds = call.cmds

C17_Witness ==
    /\ SecondPassDone("permuted")
    /\ AllBound("safe_bomb")
    /\ bombers[1].id = 1
    /\ Len(cmds) = 2
    /\ cmds[1].bombs # << >>

-----------------------------------------------------------------------------
(* Properties of a pass with a failing strategy *)

\* C18: when the strategy of one unit raises or cannot be created, the pass
\* still returns, and the commands decided for the other units are delivered
C18_OnlyFailingUnitSkipped ==
    /\ pc # "raised"
    /\ call.op = "raise" => cmds = call.cmds

\* the part of C18 that holds: a pass that does return has no command for a
\* unit whose strategy fails
C18_NoCommandForFailingUnit ==
    pc = "done" => \A i \in DOMAIN cmds : ~raises(get_for(cmds[i].bomber_id))

-----------------------------------------------------------------------------
(* Properties of the tick loop *)

FetchFailed == call.op = "get_arena" /\ call.outcome # "ok"

TickSkipped ==
    /\ cache.state = call.state
    /\ sent = call.sent
    /\ runner_pc = "get_arena"

\* C19: when fetching or parsing the snapshot fails, the cached snapshot is
\* unchanged, nothing is sent for the tick, and the loop is back at the
\* fetch of the next tick
C19_FailedFetchSkipsTick == FetchFailed => TickSkipped

\* the part of C19 that holds: a transport error or an error status skips
\* the tick and keeps the loop running
C19_TransportErrorSkipsTick ==
    (FetchFailed /\ call.outcome \in {"transport", "http_status"}) => TickSkipped

C19_TransportWitness ==
    /\ FetchFailed
    /\ call.outcome = "transport"
    /\ call.state # None
    /\ sent # << >>

\* whatever made the fetch fail, the cached snapshot stays and nothing is sent
C19_FailedFetchKeepsCache == FetchFailed => (cache.state = call.state /\ sent = call.sent)

-----------------------------------------------------------------------------
(* Properties of the strategy-instance cache *)

\* C20: over any sequence of passes at most one strategy instance is created
\* per (unit id, strategy id), every call for the pair is on that instance,
\* and no instance is called for two unit ids
C20_OneInstancePerPair ==
    /\ \A i, j \in DOMAIN created : created[i] = created[j] => i = j
    /\ \A c, e \in called : c.key = e.key => c.oid = e.oid
    /\ \A c, e \in called : c.oid = e.oid => c.key[1] = e.key[1]
    /\ \A c \in called : c.oid \in DOMAIN created /\ created[c.oid] = c.key

\* a pair called in three passes, with the other strategy of the same unit
\* called in between
C20_Witness ==
    \E c, e \in called :
        /\ c.key = e.key /\ c.pass = 1 /\ e.pass = MaxPasses
        /\ \E f \in called : f.key[1] = c.key[1] /\ f.key # c.key

-----------------------------------------------------------------------------
(* Properties of plan validation *)

ValidatedWithBooster == call.op = "validate_with_booster"

\* the longest prefix of the proposed path that is walkable for a unit with
\* the modifiers of the call
PassablePrefix ==
    safe_prefix(Take(call.plan.path, call.max_path), call.unit.pos,
                blocked_cells([booster |-> call.booster] @@ Ctx))

OutPath == IF call.out.ok THEN call.out.val.path ELSE << >>

\* C21: validation blocks a wall, obstacle or bomb cell only when the
\* matching can-pass modifier is not active: the validated path is the
\* longest prefix walkable under the active modifiers
C21_PassabilityRespected == ValidatedWithBooster => OutPath = PassablePrefix

\* the part of C21 that holds: without an active modifier a step onto a
\* wall, obstacle or bomb cell truncates the path
C21_BlockedWithoutModifier ==
    (ValidatedWithBooster /\ call.booster = [can_pass_walls |-> FALSE,
                                              can_pass_obstacles |-> FALSE,
                                              can_pass_bombs |-> FALSE])
        => OutPath = PassablePrefix

C21_BlockedWitness ==
    /\ ValidatedWithBooster
    /\ ~call.booster.can_pass_walls /\ ~call.booster.can_pass_obstacles
    /\ ~call.booster.can_pass_bombs
    /\ Len(call.plan.path) = 2
    /\ call.plan.path[2] \in Blocked
    /\ Len(OutPath) = 1

-----------------------------------------------------------------------------
(* Further properties of the decision pass *)

Movable(b) == b.alive /\ b.can_move

ValidatedCall == call.op = "validate_and_clip"

Clipped == Take(call.plan.path, call.max_path)

\* the first n steps of the clipped path are each 4-adjacent to the position
\* before them, starting at the unit, and none is blocked
WalkableUpTo(n) ==
    \A i \in 1 .. n :
        /\ manhattan(Clipped[i], IF i = 1 THEN call.unit.pos ELSE Clipped[i - 1]) = 1
        /\ Clipped[i] \notin Blocked

LongestWalkable == CHOOSE n \in 0 .. Len(Clipped) :
                      /\ WalkableUpTo(n)
                      /\ \A m \in n + 1 .. Len(Clipped) : ~WalkableUpTo(m)

\* C23: the validated path is exactly the longest walkable prefix of the
\* proposed path clipped to max_path; when that prefix is empty there is no
\* plan and decide emits no command for the unit
C23_LongestValidPrefix ==
    ValidatedCall =>
        IF LongestWalkable = 0
        THEN ~call.out.ok /\ call.cmds = << >>
        ELSE call.out.ok /\ call.out.val.path = SubSeq(Clipped, 1, LongestWalkable)

\* a plan whose last step is blocked was cut to the steps before it
C23_Witness ==
    /\ ValidatedCall
    /\ call.out.ok
    /\ Len(call.plan.path) <= call.max_path
    /\ Len(call.out.val.path) >= 2
    /\ Len(call.out.val.path) = Len(call.plan.path) - 1

\* a plan whose first step is blocked gave no plan and no command
C23_EmptyWitness ==
    /\ ValidatedCall
    /\ ~call.out.ok
    /\ call.plan.path # << >>
    /\ call.plan.path[1] \in Blocked
    /\ call.cmds = << >>

BombValidated == call.op = "resolve" /\ call.valid.ok /\ call.valid.val.bombs # << >>

BombCell == call.valid.val.bombs[1]

BombCellTaken ==
    \/ BombCell \in call.st.reserved_next
    \/ BombCell \in call.st.occupied_now \ {call.unit.pos}
    \/ BombCell \in call.st.reserved_blast

\* C24: a validated plan with a bomb gives a command to the first bomb cell
\* with the bomb placed there, or no command when that cell is reserved,
\* occupied or inside a reserved blast; never another move
C24_BombOrNothing ==
    BombValidated =>
        IF BombCellTaken THEN call.out.cmds = << >>
        ELSE call.out.cmds = <<[bomber_id |-> call.unit.id, path |-> <<BombCell>>,
                                bombs |-> <<BombCell>>]>>

\* the bomb cell is taken while a later step of the validated path is free
C24_Witness ==
    /\ BombValidated
    /\ BombCellTaken
    /\ \E i \in DOMAIN call.valid.val.path :
          can_take(call.valid.val.path[i], call.unit, call.st.reserved_next,
                   call.st.occupied_now, call.st.reserved_blast)

C24_PlacedWitness ==
    /\ BombValidated
    /\ ~BombCellTaken
    /\ Len(call.valid.val.path) = 2

\* C25: decide emits at most one command per unit, only for units that are
\* alive and can move, and every command has a path of exactly one cell
C25_OneStepCommands ==
    /\ \A i, j \in DOMAIN cmds : cmds[i].bomber_id = cmds[j].bomber_id => i = j
    /\ \A i \in DOMAIN cmds :
          /\ \E j \in DOMAIN bombers :
                bombers[j].id = cmds[i].bomber_id /\ Movable(bombers[j])
          /\ Len(cmds[i].path) = 1

\* a pass over a snapshot with a dead or stuck unit ended with a command
C25_Witness ==
    /\ pc = "done"
    /\ cmds # << >>
    /\ \E j \in DOMAIN bombers : ~Movable(bombers[j])

-----------------------------------------------------------------------------
(* Further properties of SafeBombStrategy *)

QueueBefore == call.inst.escape_plan

CalledWithQueue == call.op = "safe_decide" /\ QueueBefore # << >>

\* what the call would have done had it started with an empty queue
FromEmptyQueue == safe_decide(call.unit, Ctx, [call.inst EXCEPT !.escape_plan = << >>])

\* C26: a call that starts with a non-empty escape queue leaves the queue
\* without its head, or empty, or holding the escape of a new bomb that was
\* planned as from an empty queue; so without a new bomb the queue shrinks
C26_QueueShrinksOrClears ==
    CalledWithQueue =>
        \/ ~BombPlanned /\ StateAfter.escape_plan = Tail(QueueBefore)
        \/ ~BombPlanned /\ StateAfter.escape_plan = << >>
        \/ /\ BombPlanned
           /\ call.plan = FromEmptyQueue.plan
           /\ StateAfter = FromEmptyQueue.inst

\* a queue of two steps with a broken head was dropped and the unit moved on
C26_Witness ==
    /\ CalledWithQueue
    /\ Len(QueueBefore) = 2
    /\ ~HeadValid
    /\ call.plan.ok
    /\ StateAfter.escape_plan = << >>

\* a queue with a broken head was replaced by the escape of a new bomb
C26_NewBombWitness == CalledWithQueue /\ ~HeadValid /\ BombPlanned

\* the call went through the go-to-obstacle or the explore branch
WalkBranch ==
    /\ call.op = "safe_decide"
    /\ call.plan.ok
    /\ call.plan.val.debug \in {"go to obstacle bomb-pos", "explore"}

SteppedBack == WalkBranch /\ call.plan.val.path[1] = call.inst.prev_pos

\* neighbours of the unit other than its previous cell that are in bounds,
\* unblocked and safe to stay on for two seconds
OtherOpenNeighbours ==
    {nb \in Range(neighbors4(call.unit.pos)) \ {call.inst.prev_pos} :
        /\ inside(nb, map_size[1], map_size[2])
        /\ nb \notin Blocking \cup KillZone \cup AllyCells(call.unit.id)
        /\ nb \in DOMAIN MinExplosion => MinExplosion[nb] > 20 + SafeMargin}

\* C27: in the go-to-obstacle and explore branches the step returned is the
\* unit's previous cell only if no other neighbour is in bounds, unblocked
\* and safe to stay on for leave_time 2.0
C27_NoStepBack == SteppedBack => OtherOpenNeighbours = {}

\* the unit stepped back because every other neighbour was closed
C27_Witness == SteppedBack /\ call.plan.val.debug = "explore"

\* the search led back to the previous cell and another neighbour was taken
C27_CorrectedWitness ==
    /\ WalkBranch
    /\ call.plan.val.debug = "go to obstacle bomb-pos"
    /\ call.inst.prev_pos # NoPos
    /\ inside(call.inst.prev_pos, map_size[1], map_size[2])
    /\ call.inst.prev_pos \notin Blocking \cup KillZone \cup AllyCells(call.unit.id)
    /\ call.plan.val.path[1] # call.inst.prev_pos

-----------------------------------------------------------------------------
(* Properties of bfs_path *)

NavCalled == call.op = "bfs_path"

\* cells a walk may enter: on the map and not blocked
NavOpen == {c \in Cells : inside(c, call.a.w, call.a.h) /\ c \notin call.a.blocked}

\* the cells within n steps of the start, the start itself not being checked
RECURSIVE NavWithin(_)
NavWithin(n) ==
    IF n = 0 THEN {call.a.start}
    ELSE {c : c \in UNION {near \cup {o \in NavOpen :
                                          \E d \in near : manhattan(o, d) = 1} :
                                 near \in {NavWithin(n - 1)}}}

NavReachable == call.a.goal \in NavWithin(Cardinality(Cells))

NavDistance == Min({n \in 0 .. Cardinality(Cells) : call.a.goal \in NavWithin(n)})

\* C29: bfs_path returns [] when start = goal, None exactly when the goal
\* cannot be reached through open cells, and otherwise at most max_len steps
\* of a 4-connected walk from the start through open cells, which is a
\* shortest walk to the goal when that fits into max_len
C29_BfsPath ==
    NavCalled =>
        IF call.a.start = call.a.goal THEN call.out = Some(<< >>)
        ELSE /\ ~call.out.ok <=> ~NavReachable
             /\ call.out.ok =>
                   LET path == call.out.val
                   IN  /\ call.a.start \notin Range(path)
                       /\ \A i \in DOMAIN path :
                             /\ manhattan(path[i], IF i = 1 THEN call.a.start
                                                    ELSE path[i - 1]) = 1
                             /\ path[i] \in NavOpen
                       /\ Len(path) <= call.a.max_len
                       /\ NavDistance <= call.a.max_len =>
                             /\ Len(path) = NavDistance
                             /\ path[Len(path)] = call.a.goal

\* a goal behind blocked cells was reached by a detour
C29_Witness ==
    /\ NavCalled
    /\ call.out.ok
    /\ Len(call.out.val) > manhattan(call.a.start, call.a.goal)
    /\ manhattan(call.a.start, call.a.goal) >= 1

\* a walled-in goal gave None, a long walk was cut to max_len
C29_NoneWitness == NavCalled /\ ~call.out.ok /\ call.a.goal \notin call.a.blocked

C29_CutWitness ==
    NavCalled /\ call.out.ok /\ call.a.max_len >= 1 /\ NavDistance > call.a.max_len

-----------------------------------------------------------------------------
(* Properties of can_hit_target_in_cross *)

HitCalled == call.op = "can_hit"

HitStoppers == walls \cup obstacles \cup bomb_keys(bombs)

\* C30: for a target other than the bomb cell can_hit_target_in_cross is
\* true exactly when the target is in blast_cross of the same arguments, and
\* for the bomb cell itself it is false
C30_HitIffInCross ==
    HitCalled =>
        IF call.target_pos = call.bomb_pos THEN call.out = FALSE
        ELSE call.out <=> call.target_pos \in call.cross

\* a target that is itself a stopper is hit, being the last cell of the ray
C30_Witness ==
    /\ HitCalled
    /\ call.out
    /\ call.target_pos \in HitStoppers
    /\ call.target_pos \in call.cross

\* a target in range behind a stopper is not hit and not in the cross
C30_ShadowWitness ==
    /\ HitCalled
    /\ ~call.out
    /\ call.target_pos # call.bomb_pos
    /\ \/ call.target_pos[1] = call.bomb_pos[1]
       \/ call.target_pos[2] = call.bomb_pos[2]
    /\ manhattan(call.target_pos, call.bomb_pos) <= call.bomb_range
    /\ call.target_pos \notin call.cross

\* the bomb cell as target is refused although blast_cross contains it
C30_SelfWitness ==
    /\ HitCalled
    /\ call.target_pos = call.bomb_pos
    /\ ~call.out
    /\ call.bomb_pos \in call.cross

-----------------------------------------------------------------------------
(* Properties of FarmObstaclesStrategy *)

FarmPlanned == call.op = "farm" /\ call.out.ok

FarmPath == call.out.val.path

FarmPlace == call.out.val.bombs[1]

FarmLast == FarmPath[Len(FarmPath)]

FarmBlast ==
    danger_from_bomb(FarmPlace, 1, walls, obstacles,
                     bomb_keys(bombs_dict(bombs)) \cup {FarmPlace}, map_size[1], map_size[2])

\* one bomb, dropped on a cell of the path next to an obstacle
FarmBombPlaced ==
    /\ Len(call.out.val.bombs) = 1
    /\ FarmPlace \in Range(FarmPath)
    /\ \E obs \in obstacles : manhattan(FarmPlace, obs) = 1

\* the path ends two or more steps from the bomb, outside its blast and
\* outside the current danger
FarmEndsSafe ==
    /\ manhattan(FarmLast, FarmPlace) >= 2
    /\ FarmLast \notin FarmBlast
    /\ FarmLast \notin call.danger

\* C28: every plan of FarmObstaclesStrategy drops exactly one bomb, on a
\* cell of its path next to an obstacle, and its path ends at Manhattan
\* distance 2 or more from that cell, outside the blast that bomb would have
\* and outside the current danger set
C28_FarmPlanEndsSafe == FarmPlanned => FarmBombPlaced /\ FarmEndsSafe

\* C28, the part independent of where the path ends
C28_FarmBombPlaced == FarmPlanned => FarmBombPlaced

\* C28 for the plans shorter than the path limit, which were not cut
C28_UncutPlanEndsSafe ==
    FarmPlanned /\ Len(FarmPath) < FarmMaxLen => FarmEndsSafe

\* a plan that walks to the obstacle and away again
C28_Witness ==
    /\ FarmPlanned
    /\ Len(FarmPath) < FarmMaxLen
    /\ FarmPath[1] # FarmPlace
    /\ FarmEndsSafe

\* no plan although the unit has a bomb and an obstacle can be approached
C28_NoEscapeWitness ==
    /\ call.op = "farm"
    /\ ~call.out.ok
    /\ call.unit.bombs_available > 0
    /\ farm_best(call.unit, FarmCtx, walls \cup obstacles \cup bomb_keys(bombs_dict(bombs))) # {}

-----------------------------------------------------------------------------
(* Grid bounds of the blast footprint *)

\* C40: every cell of the footprint blast_cross returns lies inside the grid
\* [0,width) x [0,height), for bombs at or near the map edge too
C40_FootprintInsideGrid ==
    call.op = "blast_cross" =>
        \A c \in call.out : inside(c, map_size[1], map_size[2])

\* C40 for the danger set: every cell build_danger returns lies inside the grid
C40_DangerInsideGrid ==
    call.op = "build_danger" =>
        \A c \in call.out : inside(c, map_size[1], map_size[2])

\* C40 as far as it holds: a footprint leaves the grid only along a ray of
\* its bomb, never by more than the range
C40_FootprintWithinRange ==
    call.op = "blast_cross" =>
        \A c \in call.out :
            /\ c[1] = call.pos[1] \/ c[2] = call.pos[2]
            /\ manhattan(c, call.pos) <= call.bomb_range

-----------------------------------------------------------------------------
(* Units left out of the decision loop *)

Stuck(b) == b.alive /\ ~b.can_move

\* C38: no command sends a unit onto the cell of another living unit that
\* cannot move
C38_NoMoveOntoStuckUnit ==
    \A i \in DOMAIN cmds : \A j \in DOMAIN bombers :
        (Stuck(bombers[j]) /\ bombers[j].id # cmds[i].bomber_id)
            => cmds[i].path[1] # bombers[j].pos

\* C38 as far as it holds: a unit that cannot move is given no command
C38_NoCommandForStuckUnit ==
    \A i \in DOMAIN cmds : \A j \in DOMAIN bombers :
        Stuck(bombers[j]) => cmds[i].bomber_id # bombers[j].id

-----------------------------------------------------------------------------
(* Bombs dropped in the same pass *)

\* the blast decide reserves for a bomb dropped at cell c in this pass
DroppedBlast(c) ==
    danger_from_bomb(c, EngineBombRange, walls, obstacles,
                     bomb_keys(bombs_dict(bombs)) \cup {c}, map_size[1], map_size[2])

InBlastOf(i, j) ==
    /\ i # j
    /\ cmds[j].bombs # << >>
    /\ cmds[i].path[1] \in DroppedBlast(cmds[j].bombs[1])

\* C39: in the commands of one pass no unit's destination lies inside the
\* blast of a bomb another unit drops in the same pass, whichever of the two
\* was decided first
C39_NoDestinationInDroppedBlast ==
    \A i \in DOMAIN cmds : \A j \in DOMAIN cmds : ~InBlastOf(i, j)

\* C39 for a bomb dropped by a unit decided earlier
C39_LaterUnitAvoidsBlast ==
    \A i \in DOMAIN cmds : \A j \in DOMAIN cmds : j < i => ~InBlastOf(i, j)

\* a later unit was commanded while an earlier one drops a bomb
C39_Witness ==
    /\ pc = "done"
    /\ Len(cmds) = 2
    /\ cmds[1].bombs # << >>

-----------------------------------------------------------------------------
(* Properties of StateCache under interleaving *)

InSetState == runner_pc \in {"set_state.state", "set_state.ts", "set_state.release"}

InGetState(r) == readers[r].pc \in {"get_state.read", "get_state.release"}

\* the bodies of set_state and get_state exclude each other
CacheExclusive ==
    /\ Cardinality(lock) <= 1
    /\ InSetState => lock = {RunThread}
    /\ \A r \in Readers : InGetState(r) => lock = {r}

\* outside set_state the snapshot and its timestamp belong to the same call
CacheStampedTogether ==
    ~InSetState => cache.state = call.completed /\ cache.state_ts = tick

\* what get_state read is the argument of the last set_state completed at
\* that moment (None before the first), with the timestamp of that call
CacheReadsCompleted ==
    \A r \in Readers :
        /\ readers[r].got = readers[r].completed
        /\ readers[r].ts = readers[r].sets

\* C35: under any interleaving of the tick loop and the readers the bodies
\* of set_state and get_state run one at a time under the cache lock, the
\* snapshot and its timestamp change as one step, and get_state returns only
\* None or the argument of the most recent completed set_state
C35_CacheAtomic == CacheExclusive /\ CacheStampedTogether /\ CacheReadsCompleted

\* a reader waits for the lock while set_state has written the snapshot but
\* not yet its timestamp, and another reader holds an older snapshot
C35_Witness ==
    /\ runner_pc = "set_state.ts"
    /\ \E r \in Readers : readers[r].pc = "get_state.acquire"
    /\ \E r \in Readers : readers[r].got.ok /\ readers[r].got # cache.state

-----------------------------------------------------------------------------
(* Pause and stop in the tick loop *)

\* C34: after paused is set no snapshot fetch is started until it is
\* cleared: whenever get_arena is called, paused is not set
C34_NoFetchWhilePaused == call.op = "get_arena" => ~call.paused

\* C34, the first half: an iteration that has fetched its snapshot goes on
\* to the decision pass and the dispatch whatever happens to paused and
\* running in between
C34_NoCancelMidTick ==
    [][runner_pc = "decide" /\ runner_pc' # "decide"
          => runner_pc' = "while" /\ tick' = tick + 1 /\ call'.op = "tick"]_vars

\* C34, what holds of the second half: the loop leaves its pause check for
\* a fetch only if paused reads false there, and leaves `while` only if
\* running reads true
C34_PauseReadAtLoopTop ==
    [][/\ (runner_pc = "if_paused" /\ runner_pc' = "get_arena") => ~control.paused
       /\ (runner_pc = "while" /\ runner_pc' = "if_paused") => control.running]_vars

\* a tick was finished and dispatched while paused was set and running cleared
C34_Witness ==
    /\ call.op = "tick"
    /\ call.decided
    /\ call.paused
    /\ ~call.running
    /\ sent # << >>
    /\ sent[Len(sent)] = call.tick

-----------------------------------------------------------------------------
(* Resources of the time-aware search *)

Searching == call.op \in {"search", "searched"}

\* no state later than the horizon was put into the queue
LogWithinHorizon ==
    \A i \in DOMAIN call.log : call.log[i][2] <= call.a.start_time + call.a.max_time

\* no (cell, time) state was put into the queue twice
LogWithoutRepeat ==
    \A i, j \in DOMAIN call.log : i # j => call.log[i] # call.log[j]

\* a returned path has at most max_time steps
ReturnedWithinHorizon ==
    (call.op = "searched" /\ call.out.ok) => Len(call.out.val) <= call.a.max_time

\* C33: _time_bfs_first terminates on every input on a finite grid; it never
\* enqueues a state later than start_time + max_time, enqueues no (cell,
\* time) state twice, and a path it returns has at most max_time steps
C33_SearchBounded ==
    /\ [](Searching => LogWithinHorizon /\ LogWithoutRepeat /\ ReturnedWithinHorizon)
    /\ <>(call.op = "searched")

\* the loop run step by step returns what time_bfs_first returns
C33_StepsAgree == call.op = "searched" => call.out = time_bfs_first(call.a)

\* a search that ran to its horizon over several cells and found nothing
C33_Witness ==
    /\ call.op = "searched"
    /\ ~call.out.ok
    /\ Len(call.log) > 4
    /\ \E i \in DOMAIN call.log : call.log[i][2] = call.a.start_time + call.a.max_time

\* a search that returned a path as long as the horizon allows
C33_LongPathWitness ==
    /\ call.op = "searched"
    /\ call.out.ok
    /\ Len(call.out.val) = call.a.max_time

-----------------------------------------------------------------------------
(* Mobs that are still asleep *)

DecidedWithMob == call.op = "decide_with_mob"

\* C31: a mob with safe_time > 0 does not influence the plan: removing it
\* from the snapshot leaves the plan of SafeBombStrategy unchanged
C31_SleepingMobIgnored ==
    (DecidedWithMob /\ call.mob.safe_time > 0) => call.plan = call.plan_without

\* what holds instead: SafeBombStrategy treats a mob that is asleep exactly
\* as the same mob awake
C31_SafeTimeNotRead == DecidedWithMob => call.plan = call.plan_awake

\* a mob that is awake changed the plan
C31_AwakeWitness ==
    /\ DecidedWithMob
    /\ call.mob.safe_time = 0
    /\ call.plan # call.plan_without

-----------------------------------------------------------------------------
(* What a call of decide_for_unit changes *)

\* the context and the snapshot are as before the step
ContextKept ==
    /\ walls' = walls
    /\ obstacles' = obstacles
    /\ bombs' = bombs
    /\ map_size' = map_size
    /\ bombers' = bombers
    /\ mobs' = mobs
    /\ FarmCtx' = FarmCtx

\* no private state but that of the called instance has changed
OthersKept ==
    /\ DOMAIN instances' = DOMAIN instances
    /\ \A key \in DOMAIN instances : key # call'.key => instances'[key] = instances[key]

-----------------------------------------------------------------------------
(* The escape queue of SafeBombStrategy against the commands of the pass *)

\* the step is an iteration of the loop of decide for a unit whose strategy
\* returned a plan and for which the pass has emitted no command
StepDropped ==
    /\ pc = "loop"
    /\ k <= Len(decide_units(bombers))
    /\ k' = k + 1
    /\ cmds' = cmds
    /\ LET unit == decide_units(bombers)[k]
           key == <<unit.id, get_for(unit.id)>>
       IN  \E r \in decide_for_unit(key[2], unit, instance_of(key)) :
              r.plan.ok /\ instances'[key] = r.inst

\* the queue of the unit's strategy is as it was before the call
QueueKept ==
    LET unit == decide_units(bombers)[k]
        key == <<unit.id, get_for(unit.id)>>
    IN  instances'[key].escape_plan = instance_of(key).escape_plan

\* C37: when decide drops the step that SafeBombStrategy proposed for a unit,
\* the call has neither consumed nor newly committed the escape queue
C37_DroppedStepKeepsQueue == [][StepDropped => QueueKept]_vars

\* the queue of a unit holds cells although the pass has returned without a
\* command for that unit
C37_QueueWithoutCommand ==
    pc = "done" =>
        \A key \in DOMAIN instances :
            instances[key].escape_plan # << >> =>
                \E i \in DOMAIN cmds : cmds[i].bomber_id = key[1]

-----------------------------------------------------------------------------
(* The unit of the closed loop and the bombs that go off *)

\* C36: in the closed loop of one unit run by SafeBombStrategy, with no mobs
\* and a static arena, the unit is never in the blast of a bomb at the
\* moment the bomb goes off
C36_NeverInBlast == call.op = "tick" => ~call.hit

\* the unit of the closed loop is never in the blast of a bomb it laid
\* itself at the moment that bomb goes off
C36_NeverInOwnBlast == call.op = "tick" => ~call.hit_own

\* a bomb has gone off while the unit stood outside its blast
C36_Witness ==
    /\ call.op = "tick"
    /\ call.detonated
    /\ ~call.hit

====
